---- MODULE Spec2Model ----
(***************************************************************************)
(* Position tracking of analyzer-script:                                   *)
(*   trackPositionsAndCompetitorsTransactional (services/trackingService)  *)
(*   makeRequestWithRetries                    (services/utils)            *)
(*                                                                         *)
(* One action is one stretch of JavaScript between two awaits: the code    *)
(* from the moment an awaited promise settles up to the next await (or to  *)
(* the return / throw of the function).  The store (Supabase) and the      *)
(* search API are the environment: every awaited call settles with one of  *)
(* the outcomes the client library can deliver.                            *)
(*                                                                         *)
(* The string sentinels of the source are Cyrillic; the module writes them *)
(* transliterated (the parser accepts ASCII strings only):                 *)
(*   'Не найдено' -> "Ne naideno",  'Ошибка' -> "Oshibka".                 *)
(***************************************************************************)
EXTENDS Integers, Sequences, FiniteSets, TLC

(***************************************************************************)
(* Bounds of the model.                                                    *)
(***************************************************************************)
\* longest list of eligible postings the vacancies query returns
MaxVacancies == 3
\* longest item list of one search response (the page of the model)
MaxItems == 2
\* most pages of postings the platform holds for one company
MaxPages == 2
\* longest list of summaries syncVacanciesInDB is called with
MaxFetched == 3

(***************************************************************************)
(* Program constants.                                                      *)
(***************************************************************************)
\* makeRequestWithRetries(axiosConfig, retries = 5, baseDelay = 2000)
Retries == 5
BaseDelay == 2000
\* await sleep(500) between two groups
GroupDelay == 500
\* position = response.data.pages > 0 ? 100 : 'Не найдено'
BeyondPage == 100

RetryableStatuses == {403, 429, 500, 502, 503, 504}

NotFoundText == "Ne naideno"
ErrorText == "Oshibka"
GroupErrorMessage == "Ne udalos poluchit dannye dlya gruppy posle vseh popytok."
ReportErrorPrefix == "Ne udalos sozdat zapis otcheta: "
InsertErrorPrefix == "Oshibka massovogo sohraneniya otchetov o poziciyah: "

(***************************************************************************)
(* JavaScript values.  A position is a number or a string; the two kinds   *)
(* are kept apart as records so that a rank never equals a sentinel text.  *)
(***************************************************************************)
Num(n) == [t |-> "number", n |-> n]
Str(s) == [t |-> "string", s |-> s]

\* what a variable holds before it is assigned / after it went out of scope
None == [t |-> "undefined"]

(***************************************************************************)
(* The environment's inputs.                                               *)
(***************************************************************************)
\* The normalized rows of the vacancies table, in the order the store returns
\* them, with the columns the query of lines 13-17 selects.
\* hh_vacancy_id is the platform's integer id, area_id an integer,
\* normalized_title and schedule_id strings.  Rows 3 and 5 share one triple;
\* rows 1 and 3 differ in all three fields.
VacancyRows ==
    << [id |-> 1, hh_vacancy_id |-> 101, normalized_title |-> "a",   area_id |-> 1, schedule_id |-> "2_x"],
       [id |-> 2, hh_vacancy_id |-> 102, normalized_title |-> "b",   area_id |-> 1, schedule_id |-> "x"],
       [id |-> 3, hh_vacancy_id |-> 103, normalized_title |-> "a_1", area_id |-> 2, schedule_id |-> "x"],
       [id |-> 4, hh_vacancy_id |-> 104, normalized_title |-> "a",   area_id |-> 1, schedule_id |-> "x"],
       [id |-> 5, hh_vacancy_id |-> 105, normalized_title |-> "a_1", area_id |-> 2, schedule_id |-> "x"] >>

Range(s) == { s[i] : i \in DOMAIN s }

\* the rows of `rows` at the indexes in S, in the order of `rows`
RECURSIVE Pick(_, _, _)
Pick(rows, S, i) ==
    IF i > Len(rows) THEN <<>>
    ELSE (IF i \in S THEN <<rows[i]>> ELSE <<>>) \o Pick(rows, S, i + 1)

\* normalized_title of a row the normalization stage has not reached (null)
NullTitle == "<null>"

\* the table with the rows at the indexes in S active and the others archived,
\* followed by one active row without a normalized title
StoredVacancies(S) ==
    [ i \in DOMAIN VacancyRows |->
        [ f \in DOMAIN VacancyRows[i] \cup {"status"} |->
            IF f = "status" THEN (IF i \in S THEN "active" ELSE "archived")
            ELSE VacancyRows[i][f] ] ]
    \o << [id |-> 6, hh_vacancy_id |-> 106, normalized_title |-> NullTitle,
           area_id |-> 1, schedule_id |-> "x", status |-> "active"] >>

\* the contents of the vacancies table at the start of a run: at most
\* MaxVacancies of the normalized rows are active
VacancyTables ==
    { StoredVacancies(S) : S \in { T \in SUBSET DOMAIN VacancyRows : Cardinality(T) <= MaxVacancies } }

\* select('id, hh_vacancy_id, normalized_title, area_id, schedule_id')
SelectedColumns == {"id", "hh_vacancy_id", "normalized_title", "area_id", "schedule_id"}

\* lines 13-17: .not('normalized_title', 'is', null).eq('status', 'active')
SelectActive(table) ==
    LET S == { i \in DOMAIN table :
                 table[i].normalized_title # NullTitle /\ table[i].status = "active" }
        rows == Pick(table, S, 1)
    IN  [ k \in DOMAIN rows |-> [ f \in SelectedColumns |-> rows[k][f] ] ]

\* The item lists of a search response, as far as a group can tell them
\* apart: slot k holds the id (a decimal string) of a posting of the group
\* or of some other posting of the platform, no id twice.
ForeignId(k) == ToString(990 + k)

\* the numbers the platform uses as posting ids
PlatformIds ==
    { VacancyRows[i].hh_vacancy_id : i \in DOMAIN VacancyRows } \cup { 990 + k : k \in 1..MaxItems }

ItemLists(memberIds) ==
    UNION { { s \in [1..n -> memberIds \cup { ForeignId(k) : k \in 1..n }] :
                /\ \A k \in 1..n : s[k] \in memberIds \/ s[k] = ForeignId(k)
                /\ \A i, j \in 1..n : i # j => s[i] # s[j] } : n \in 0..MaxItems }

\* what an HTTP attempt can fail with: a response with a status, or no
\* response at all (error.response is undefined: a network failure)
HttpError(status) == [response |-> TRUE, status |-> status]
NetworkError == [response |-> FALSE, status |-> 0]

\* the statuses the search API answers a failed attempt with
FailureStatuses == RetryableStatuses \cup {400, 404}

(***************************************************************************)
(* trackingService.js: the grouping (lines 25-32).                         *)
(***************************************************************************)
\* `${vacancy.normalized_title}_${vacancy.area_id}_${vacancy.schedule_id}`
GroupKey(vacancy) ==
    vacancy.normalized_title \o "_" \o ToString(vacancy.area_id) \o "_" \o vacancy.schedule_id

\* the pass with unshift in place of push: the newest posting leads its group
GroupPush_Prepend(groups, vacancy) ==
    LET groupKey == GroupKey(vacancy)
    IN  IF \E i \in DOMAIN groups : groups[i].key = groupKey
        THEN LET i == CHOOSE i \in DOMAIN groups : groups[i].key = groupKey
             IN  [groups EXCEPT ![i].members = <<vacancy>> \o @]
        ELSE Append(groups, [key |-> groupKey, members |-> <<vacancy>>])

\* the pass with the lookup lost: every posting opens a group of its own
GroupPush_NoLookup(groups, vacancy) ==
    Append(groups, [key |-> GroupKey(vacancy), members |-> <<vacancy>>])

\* the pass with set(key, [vacancy]) in place of push: the group is replaced
GroupPush_Overwrite(groups, vacancy) ==
    LET groupKey == GroupKey(vacancy)
    IN  IF \E i \in DOMAIN groups : groups[i].key = groupKey
        THEN LET i == CHOOSE i \in DOMAIN groups : groups[i].key = groupKey
             IN  [groups EXCEPT ![i].members = <<vacancy>>]
        ELSE Append(groups, [key |-> groupKey, members |-> <<vacancy>>])

\* one pass of the for loop: has / set(key, []) / get(key).push(vacancy).
\* A JavaScript Map iterates in insertion order: a sequence of entries.
GroupPush(groups, vacancy) ==
    LET groupKey == GroupKey(vacancy)
    IN  IF \E i \in DOMAIN groups : groups[i].key = groupKey
        THEN LET i == CHOOSE i \in DOMAIN groups : groups[i].key = groupKey
             IN  [groups EXCEPT ![i].members = Append(@, vacancy)]
        ELSE Append(groups, [key |-> groupKey, members |-> <<vacancy>>])

RECURSIVE GroupFrom(_, _, _)
GroupFrom(groups, vacancies, i) ==
    IF i > Len(vacancies) THEN groups
    ELSE GroupFrom(GroupPush(groups, vacancies[i]), vacancies, i + 1)

GroupVacancies(vacancies) == GroupFrom(<<>>, vacancies, 1)

(***************************************************************************)
(* trackingService.js: the resolution of one group (lines 66-95).          *)
(***************************************************************************)
\* parseInt of a decimal string: the number it is the decimal form of
ParseInt(s) == CHOOSE n \in PlatformIds : ToString(n) = s

\* the entry with the index left 0-based
MapEntry_ZeroBased(item, index) == [key |-> ParseInt(item.id), value |-> index]

\* (item, index) => [parseInt(item.id), index + 1], index counted from 0
MapEntry(item, index) == [key |-> ParseInt(item.id), value |-> index + 1]

\* new Map(items.map(...)): a later entry with the same key replaces an
\* earlier one
PositionMap(items) ==
    LET entries == [ i \in DOMAIN items |-> MapEntry(items[i], i - 1) ]
    IN  [ k \in { entries[i].key : i \in DOMAIN entries } |->
            LET last == CHOOSE i \in DOMAIN entries :
                            /\ entries[i].key = k
                            /\ \A j \in DOMAIN entries : entries[j].key = k => j <= i
            IN  entries[last].value ]

\* lines 73-78
ResolvePosition(vacancy, data) ==
    LET positionMap == PositionMap(data.items)
    IN  IF vacancy.hh_vacancy_id \in DOMAIN positionMap
        THEN Num(positionMap[vacancy.hh_vacancy_id])
        ELSE IF data.pages > 0 THEN Num(BeyondPage) ELSE Str(NotFoundText)

\* the rows with the length of the page in place of found
ResolvedReports_ItemCount(group, data, reportId) ==
    [ i \in DOMAIN group |->
        [ report_id |-> reportId, vacancy_id |-> group[i].id,
          position |-> ResolvePosition(group[i], data),
          competitors_count |-> Len(data.items) ] ]

\* lines 72-86: the rows pushed for a group whose search was resolved
ResolvedReports(group, data, reportId) ==
    [ i \in DOMAIN group |->
        [ report_id |-> reportId, vacancy_id |-> group[i].id,
          position |-> ResolvePosition(group[i], data),
          competitors_count |-> data.found ] ]

\* a catch that only logs: the group is skipped without rows
FailedReports_Skipped(group, reportId) == <<>>

\* lines 89-95: the rows pushed by catch (searchError)
FailedReports(group, reportId) ==
    [ i \in DOMAIN group |->
        [ report_id |-> reportId, vacancy_id |-> group[i].id,
          position |-> Str(ErrorText), competitors_count |-> 0,
          error_message |-> GroupErrorMessage ] ]

\* response.data.items.map throws a TypeError when the body has no item list
ResolutionThrows(data) == "items" \notin DOMAIN data

(***************************************************************************)
(* utils.js: makeRequestWithRetries (lines 18-35).                         *)
(***************************************************************************)
\* a test that takes every answered request for retryable
isRetryable_AnyResponse(error) == error.response

\* error.response && [403, 429, 500, 502, 503, 504].includes(error.response.status)
isRetryable(error) == error.response /\ error.status \in RetryableStatuses

\* the test with attempt <= retries
RetriesAfter_Inclusive(error, att) == isRetryable(error) /\ att <= Retries

\* if (isRetryable && attempt < retries): sleep and go round the loop again
RetriesAfter(error, att) == isRetryable(error) /\ att < Retries

\* a backoff that grows by baseDelay per attempt
delay_Linear(att) == BaseDelay * att

\* baseDelay * (2 ** (attempt - 1))
delay(att) == BaseDelay * (2 ^ (att - 1))

(***************************************************************************)
(* The bodies the search API answers a successful request with:            *)
(* {found, pages, items}, the page holding at most MaxItems items, pages   *)
(* the number of pages found items fill; and a body without an item list.  *)
(***************************************************************************)
PagesOf(found) == (found + MaxItems - 1) \div MaxItems

Min(a, b) == IF a <= b THEN a ELSE b

SearchBodies(memberIds) ==
    { [found |-> f, pages |-> PagesOf(f), items |-> [ i \in DOMAIN ids |-> [id |-> ids[i]] ]] :
        f \in 0..(MaxItems + 1),
        ids \in ItemLists(memberIds) }

WellFormedBodies(memberIds) ==
    { b \in SearchBodies(memberIds) : Len(b.items) = Min(b.found, MaxItems) }

BodyWithoutItems == [found |-> 0, pages |-> 0]

MemberIds(group) == { ToString(group[i].hh_vacancy_id) : i \in DOMAIN group }

(***************************************************************************)
(* State.                                                                  *)
(***************************************************************************)
VARIABLES
    pc,                  \* the await the run is suspended at, or how it ended
    thrown,              \* the error the run raised to its caller
    reports,             \* store: table reports
    position_reports,    \* store: table position_reports
    vacancies_table,     \* store: table vacancies
    processExit,         \* main: "running", or how the process ended
    stageLog,            \* main: the calls of its stages and how they settled, in order
    vacancies,           \* run: the eligible postings the query returned
    groupedVacancies,    \* run: the Map, in insertion order
    currentReportId,     \* run
    allPositionReports,  \* run: the outcome buffer
    processedCount,      \* run
    groupIndex,          \* run
    attempt,             \* executor: the loop counter
    attemptLog,          \* executor: the errors caught in this call, in order
    sleeps,              \* executor: the delays slept in this call, in order
    requests,            \* history: HTTP requests issued by this call
    inFlight,            \* history: HTTP requests issued and not yet settled
    searchCalls,         \* history: params of every makeRequestWithRetries call
    lastSearch,          \* history: how the search of group groupIndex settled
    searchFailed,        \* history: the groups whose search call threw
    groupSleeps,         \* history: the delays of the sleep calls of line 98, in order
    reportUpdates,       \* history: the fields of every update issued on table reports
    syncPc,              \* syncVacanciesInDB: the await it is suspended at, or how it ended
    fetchedVacancies,    \* syncVacanciesInDB: the summaries it was called with
    allExistingVacancies,       \* syncVacanciesInDB
    isInitialSync,              \* syncVacanciesInDB
    newVacanciesSummaries,      \* syncVacanciesInDB
    summaryIndex,               \* syncVacanciesInDB: place of the for loop in newVacanciesSummaries
    vacanciesToInsert,          \* syncVacanciesInDB
    flawedVacanciesForGrouping, \* syncVacanciesInDB
    detailRequests,      \* history: the posting ids of the detail calls and how each ended
    notifications,       \* history: the lists passed to sendGroupedNotifications
    inserts,             \* history: the row lists passed to insert on table vacancies
    fetchPc,             \* fetchAllVacanciesForCompany: its await, or "returned" / "raised"
    page,                \* fetchAllVacanciesForCompany
    allVacancies,        \* fetchAllVacanciesForCompany
    platform,            \* the search API: the pages it holds and the page count it reports
    pageRequests         \* history: the page numbers requested and how each request ended

runVars == <<vacancies, groupedVacancies, currentReportId, allPositionReports,
             processedCount, groupIndex>>
storeVars == <<reports, position_reports>>
execVars == <<attempt, attemptLog, sleeps, requests, inFlight>>
syncVars == <<syncPc, fetchedVacancies, allExistingVacancies, isInitialSync,
              newVacanciesSummaries, summaryIndex, vacanciesToInsert,
              flawedVacanciesForGrouping, detailRequests, notifications, inserts>>
fetchVars == <<fetchPc, page, allVacancies, platform, pageRequests>>
\* what a run can only read, the process that called it, and the stage before it
outerVars == <<vacancies_table, processExit, stageLog, syncVars, fetchVars>>
histVars == <<searchCalls, lastSearch, searchFailed, groupSleeps, reportUpdates>>
vars == <<pc, thrown, reports, position_reports, vacancies_table, processExit, stageLog,
          inFlight, vacancies, groupedVacancies,
          currentReportId, allPositionReports, processedCount, groupIndex,
          attempt, attemptLog, sleeps, requests, searchCalls, lastSearch,
          searchFailed, groupSleeps, reportUpdates, syncVars, fetchVars>>

\* index.js 21-24: the stages of main, in the order of its awaits
Stages ==
    << "syncAllCompanies", "archiveOrphanedVacancies", "normalizeAllPending",
       "trackPositionsAndCompetitorsTransactional" >>

Called(stage) == [stage |-> stage, event |-> "called"]
Returned(stage) == [stage |-> stage, event |-> "returned"]
Raised(stage) == [stage |-> stage, event |-> "raised"]

\* the stage main has called and is awaiting
PendingStage == stageLog[Len(stageLog)].stage

\* the log of main when it has called the tracking stage: the three stages
\* before it have been called and have returned
EarlierStagesReturned ==
    << Called(Stages[1]), Returned(Stages[1]), Called(Stages[2]), Returned(Stages[2]),
       Called(Stages[3]), Returned(Stages[3]), Called(Stages[4]) >>

\* the postings of the g-th group of the Map
Members(g) == groupedVacancies[g].members

\* lastSearch while no search of the current group has settled
NoSearch == [kind |-> "none"]

\* what a failed store call returns in {error}
StoreError == [message |-> "store error"]

\* syncVacanciesInDB has not been called
SyncNotCalled ==
    /\ syncPc = "notCalled"
    /\ fetchedVacancies = <<>>
    /\ allExistingVacancies = <<>>
    /\ isInitialSync = FALSE
    /\ newVacanciesSummaries = <<>>
    /\ summaryIndex = 0
    /\ vacanciesToInsert = <<>>
    /\ flawedVacanciesForGrouping = <<>>
    /\ detailRequests = <<>>
    /\ notifications = <<>>
    /\ inserts = <<>>

\* fetchAllVacanciesForCompany has not been called
FetchNotCalled ==
    /\ fetchPc = "notCalled"
    /\ page = 0
    /\ allVacancies = <<>>
    /\ platform = <<>>
    /\ pageRequests = <<>>

Init ==
    /\ pc = "select"
    /\ thrown = None
    /\ reports = <<>>
    /\ position_reports = <<>>
    /\ vacancies_table \in VacancyTables
    /\ processExit = "running"
    /\ stageLog = EarlierStagesReturned
    /\ inFlight = 0
    /\ vacancies = <<>>
    /\ groupedVacancies = <<>>
    /\ currentReportId = 0
    /\ allPositionReports = <<>>
    /\ processedCount = 0
    /\ groupIndex = 0
    /\ attempt = 0
    /\ attemptLog = <<>>
    /\ sleeps = <<>>
    /\ requests = 0
    /\ searchCalls = <<>>
    /\ lastSearch = NoSearch
    /\ searchFailed = {}
    /\ groupSleeps = <<>>
    /\ reportUpdates = <<>>
    /\ SyncNotCalled
    /\ FetchNotCalled

(***************************************************************************)
(* trackPositionsAndCompetitorsTransactional (trackingService.js 10-125).  *)
(***************************************************************************)
\* the head of a pass that also fires the request of the group after this one
StartGroup_Prefetch ==
    LET representative == groupedVacancies[groupIndex + 1].members[1]
        ahead == IF groupIndex + 2 <= Len(groupedVacancies) THEN 1 ELSE 0
    IN  /\ groupIndex' = groupIndex + 1
        /\ searchCalls' = Append(searchCalls,
                                 [text |-> representative.normalized_title,
                                  area |-> representative.area_id,
                                  schedule |-> representative.schedule_id])
        /\ attempt' = 1
        /\ attemptLog' = <<>>
        /\ sleeps' = <<>>
        /\ requests' = 1
        /\ inFlight' = inFlight + 1 + ahead
        /\ lastSearch' = NoSearch
        /\ pc' = "request"

\* lines 49-66: the head of one loop pass, up to the await of the executor,
\* whose first attempt is issued at once (utils.js 19-21)
StartGroup ==
    LET representative == groupedVacancies[groupIndex + 1].members[1]
    IN  /\ groupIndex' = groupIndex + 1
        /\ searchCalls' = Append(searchCalls,
                                 [text |-> representative.normalized_title,
                                  area |-> representative.area_id,
                                  schedule |-> representative.schedule_id])
        /\ attempt' = 1
        /\ attemptLog' = <<>>
        /\ sleeps' = <<>>
        /\ requests' = 1
        /\ inFlight' = inFlight + 1
        /\ lastSearch' = NoSearch
        /\ pc' = "request"

\* the tail with processedCount counted one past the buffer
AfterGroup_CountsOneMore(buffer) ==
    /\ allPositionReports' = buffer
    /\ attempt' = 0
    /\ attemptLog' = <<>>
    /\ sleeps' = <<>>
    /\ requests' = 0
    /\ inFlight' = inFlight - 1
    /\ IF groupIndex < Len(groupedVacancies)
       THEN /\ pc' = "groupSleep"
            /\ groupSleeps' = Append(groupSleeps, GroupDelay)
            /\ processedCount' = processedCount
       ELSE /\ processedCount' = Len(buffer) + 1
            /\ groupSleeps' = groupSleeps
            /\ pc' = IF Len(buffer) > 0 THEN "insertPositions" ELSE "updateCompleted"

\* the tail that sleeps after every group, the last one included
AfterGroup_SleepsAfterLast(buffer) ==
    /\ allPositionReports' = buffer
    /\ attempt' = 0
    /\ attemptLog' = <<>>
    /\ sleeps' = <<>>
    /\ requests' = 0
    /\ inFlight' = inFlight - 1
    /\ groupSleeps' = Append(groupSleeps, GroupDelay)
    /\ IF groupIndex < Len(groupedVacancies)
       THEN /\ pc' = "groupSleep"
            /\ processedCount' = processedCount
       ELSE /\ processedCount' = Len(buffer)
            /\ pc' = IF Len(buffer) > 0 THEN "insertPositions" ELSE "updateCompleted"

\* line 98 and, when the loop is over, lines 101-105: what follows the
\* try/catch of one group, with the buffer as the group left it
AfterGroup(buffer) ==
    /\ allPositionReports' = buffer
    /\ attempt' = 0
    /\ attemptLog' = <<>>
    /\ sleeps' = <<>>
    /\ requests' = 0
    /\ inFlight' = inFlight - 1
    /\ IF groupIndex < Len(groupedVacancies)
       THEN /\ pc' = "groupSleep"
            /\ groupSleeps' = Append(groupSleeps, GroupDelay)
            /\ processedCount' = processedCount
       ELSE /\ processedCount' = Len(buffer)
            /\ groupSleeps' = groupSleeps
            /\ pc' = IF Len(buffer) > 0 THEN "insertPositions" ELSE "updateCompleted"

\* the query settling without the early return of lines 20-23
SelectVacancies_NoEarlyReturn ==
    /\ pc = "select"
    /\ \/ /\ pc' = "raised"
          /\ thrown' = StoreError
          /\ UNCHANGED <<runVars, storeVars, execVars, histVars>>
       \/ LET data == SelectActive(vacancies_table)
          IN  /\ vacancies' = data
              /\ groupedVacancies' = GroupVacancies(data)
              /\ pc' = "insertReport"
              /\ UNCHANGED <<thrown, currentReportId, allPositionReports, processedCount,
                             groupIndex, storeVars, execVars, histVars>>
    /\ UNCHANGED outerVars

\* a failed query that leaves a failed report behind before it throws
SelectVacancies_ReportsFailure ==
    /\ pc = "select"
    /\ \/ /\ pc' = "raised"
          /\ thrown' = StoreError
          /\ reports' = Append(reports, [id |-> Len(reports) + 1, status |-> "failed",
                                         total_vacancies |-> 0])
          /\ UNCHANGED <<runVars, position_reports, execVars, histVars>>
       \/ /\ Len(SelectActive(vacancies_table)) = 0
          /\ pc' = "returned"
          /\ UNCHANGED <<thrown, runVars, storeVars, execVars, histVars>>
       \/ LET data == SelectActive(vacancies_table)
          IN  /\ Len(data) > 0
              /\ vacancies' = data
              /\ groupedVacancies' = GroupVacancies(data)
              /\ pc' = "insertReport"
              /\ UNCHANGED <<thrown, currentReportId, allPositionReports, processedCount,
                             groupIndex, storeVars, execVars, histVars>>
    /\ UNCHANGED outerVars

\* lines 13-33: the vacancies query settles
SelectVacancies ==
    /\ pc = "select"
    /\ \/ \* if (vacanciesError) throw vacanciesError
          /\ pc' = "raised"
          /\ thrown' = StoreError
          /\ UNCHANGED <<runVars, storeVars, execVars, histVars>>
       \/ \* if (!vacancies || vacancies.length === 0) return
          /\ Len(SelectActive(vacancies_table)) = 0
          /\ pc' = "returned"
          /\ UNCHANGED <<thrown, runVars, storeVars, execVars, histVars>>
       \/ LET data == SelectActive(vacancies_table)
          IN  /\ Len(data) > 0
              /\ vacancies' = data
              /\ groupedVacancies' = GroupVacancies(data)
              /\ pc' = "insertReport"
              /\ UNCHANGED <<thrown, currentReportId, allPositionReports, processedCount,
                             groupIndex, storeVars, execVars, histVars>>
    /\ UNCHANGED outerVars

\* the insert with reportError read only after the first search was issued
InsertReport_LateCheck ==
    /\ pc = "insertReport"
    /\ \/ /\ pc' = "raised"
          /\ thrown' = [message |-> ReportErrorPrefix \o StoreError.message]
          /\ searchCalls' = Append(searchCalls, [text |-> Members(1)[1].normalized_title,
                                                 area |-> Members(1)[1].area_id,
                                                 schedule |-> Members(1)[1].schedule_id])
          /\ requests' = 1
          /\ inFlight' = inFlight + 1
          /\ UNCHANGED <<runVars, storeVars, attempt, attemptLog, sleeps, lastSearch,
                         searchFailed, groupSleeps, reportUpdates>>
       \/ LET id == Len(reports) + 1
          IN  /\ reports' = Append(reports, [id |-> id, status |-> "pending",
                                             total_vacancies |-> Len(vacancies)])
              /\ currentReportId' = id
              /\ allPositionReports' = <<>>
              /\ processedCount' = 0
              /\ StartGroup
              /\ UNCHANGED <<thrown, position_reports, vacancies, groupedVacancies,
                             searchFailed, groupSleeps, reportUpdates>>
    /\ UNCHANGED outerVars

\* the insert with the number of groups as total
InsertReport_GroupTotal ==
    /\ pc = "insertReport"
    /\ \/ /\ pc' = "raised"
          /\ thrown' = [message |-> ReportErrorPrefix \o StoreError.message]
          /\ UNCHANGED <<runVars, storeVars, execVars, histVars>>
       \/ LET id == Len(reports) + 1
          IN  /\ reports' = Append(reports, [id |-> id, status |-> "pending",
                                             total_vacancies |-> Len(groupedVacancies)])
              /\ currentReportId' = id
              /\ allPositionReports' = <<>>
              /\ processedCount' = 0
              /\ StartGroup
              /\ UNCHANGED <<thrown, position_reports, vacancies, groupedVacancies,
                             searchFailed, groupSleeps, reportUpdates>>
    /\ UNCHANGED outerVars

\* lines 35-66: the insert of the report row settles
InsertReport ==
    /\ pc = "insertReport"
    /\ \/ \* if (reportError) throw new Error(...)
          /\ pc' = "raised"
          /\ thrown' = [message |-> ReportErrorPrefix \o StoreError.message]
          /\ UNCHANGED <<runVars, storeVars, execVars, histVars>>
       \/ LET id == Len(reports) + 1
          IN  /\ reports' = Append(reports, [id |-> id, status |-> "pending",
                                             total_vacancies |-> Len(vacancies)])
              /\ currentReportId' = id
              /\ allPositionReports' = <<>>
              /\ processedCount' = 0
              /\ StartGroup
              /\ UNCHANGED <<thrown, position_reports, vacancies, groupedVacancies,
                             searchFailed, groupSleeps, reportUpdates>>
    /\ UNCHANGED outerVars

\* a resolution that has pushed a row for the representative before it throws
HttpSuccess_RowBeforeThrow ==
    /\ pc = "request"
    /\ \E data \in WellFormedBodies(MemberIds(groupedVacancies[groupIndex].members))
                      \cup {BodyWithoutItems} :
         LET group == groupedVacancies[groupIndex].members
         IN  /\ lastSearch' = [kind |-> "response", data |-> data]
             /\ AfterGroup(allPositionReports \o
                             (IF ResolutionThrows(data)
                              THEN <<[report_id |-> currentReportId, vacancy_id |-> group[1].id,
                                      position |-> Str(NotFoundText),
                                      competitors_count |-> data.found]>>
                                   \o FailedReports(group, currentReportId)
                              ELSE ResolvedReports(group, data, currentReportId)))
    /\ UNCHANGED <<thrown, storeVars, vacancies, groupedVacancies, currentReportId,
                   groupIndex, searchCalls, searchFailed, reportUpdates>>
    /\ UNCHANGED outerVars

\* utils.js 21-22, then trackingService.js 67-98: the attempt succeeds, the
\* executor returns the response and the group is resolved; a body without
\* items throws inside the try and lands in catch (searchError)
HttpSuccess ==
    /\ pc = "request"
    /\ \E data \in WellFormedBodies(MemberIds(groupedVacancies[groupIndex].members))
                      \cup {BodyWithoutItems} :
         LET group == groupedVacancies[groupIndex].members
         IN  /\ lastSearch' = [kind |-> "response", data |-> data]
             /\ AfterGroup(allPositionReports \o
                             (IF ResolutionThrows(data)
                              THEN FailedReports(group, currentReportId)
                              ELSE ResolvedReports(group, data, currentReportId)))
    /\ UNCHANGED <<thrown, storeVars, vacancies, groupedVacancies, currentReportId,
                   groupIndex, searchCalls, searchFailed, reportUpdates>>
    /\ UNCHANGED outerVars

\* utils.js 23-28: the attempt fails and the executor sleeps before the next
HttpFailureRetried(error) ==
    /\ pc = "request"
    /\ RetriesAfter(error, attempt)
    /\ attemptLog' = Append(attemptLog, error)
    /\ sleeps' = Append(sleeps, delay(attempt))
    /\ inFlight' = inFlight - 1
    /\ pc' = "backoff"
    /\ UNCHANGED <<thrown, attempt, requests, storeVars, runVars, histVars>>
    /\ UNCHANGED outerVars

\* a catch (searchError) that also marks the report failed
HttpFailureThrown_MarksFailed(error) ==
    /\ pc = "request"
    /\ ~RetriesAfter(error, attempt)
    /\ lastSearch' = [kind |-> "error", error |-> error, attempts |-> requests]
    /\ searchFailed' = searchFailed \cup {groupIndex}
    /\ reports' = [reports EXCEPT ![currentReportId].status = "failed"]
    /\ AfterGroup(allPositionReports \o
                    FailedReports(groupedVacancies[groupIndex].members, currentReportId))
    /\ UNCHANGED <<thrown, position_reports, vacancies, groupedVacancies, currentReportId,
                   groupIndex, searchCalls, reportUpdates>>
    /\ UNCHANGED outerVars

\* utils.js 29-31, then trackingService.js 87-98: the attempt fails, the
\* executor throws and the group gets the failure rows
HttpFailureThrown(error) ==
    /\ pc = "request"
    /\ ~RetriesAfter(error, attempt)
    /\ lastSearch' = [kind |-> "error", error |-> error, attempts |-> requests]
    /\ searchFailed' = searchFailed \cup {groupIndex}
    /\ AfterGroup(allPositionReports \o
                    FailedReports(groupedVacancies[groupIndex].members, currentReportId))
    /\ UNCHANGED <<thrown, storeVars, vacancies, groupedVacancies, currentReportId,
                   groupIndex, searchCalls, reportUpdates>>
    /\ UNCHANGED outerVars

\* the failures the search API delivers during a run
RunErrors == { HttpError(429), HttpError(404), NetworkError }

HttpFailure ==
    \E error \in RunErrors : HttpFailureRetried(error) \/ HttpFailureThrown(error)

\* the backoff after which the executor starts over with a fresh attempt count
BackoffElapsed_StartsOver ==
    /\ pc = "backoff"
    /\ attempt' = 1
    /\ requests' = 1
    /\ attemptLog' = <<>>
    /\ sleeps' = <<>>
    /\ inFlight' = inFlight + 1
    /\ pc' = "request"
    /\ UNCHANGED <<thrown, storeVars, runVars, histVars>>
    /\ UNCHANGED outerVars

\* utils.js 28, 19-21: the backoff sleep is over, the next attempt is issued
BackoffElapsed ==
    /\ pc = "backoff"
    /\ attempt' = attempt + 1
    /\ requests' = requests + 1
    /\ inFlight' = inFlight + 1
    /\ pc' = "request"
    /\ UNCHANGED <<thrown, attemptLog, sleeps, storeVars, runVars, histVars>>
    /\ UNCHANGED outerVars

\* line 98 is over: the next pass of the loop
GroupSleepElapsed ==
    /\ pc = "groupSleep"
    /\ StartGroup
    /\ UNCHANGED <<thrown, storeVars, vacancies, groupedVacancies, currentReportId,
                   allPositionReports, processedCount, searchFailed, groupSleeps,
                   reportUpdates>>
    /\ UNCHANGED outerVars

\* the bulk insert with insertError never read
InsertPositionReports_ErrorIgnored ==
    /\ pc = "insertPositions"
    /\ lastSearch' = NoSearch
    /\ \/ position_reports' = position_reports \o allPositionReports
       \/ position_reports' = position_reports
    /\ pc' = "updateCompleted"
    /\ thrown' = thrown
    /\ UNCHANGED <<reports, runVars, execVars, searchCalls, searchFailed, groupSleeps,
                   reportUpdates>>
    /\ UNCHANGED outerVars

\* the bulk insert sent twice
InsertPositionReports_Twice ==
    /\ pc = "insertPositions"
    /\ lastSearch' = NoSearch
    /\ \/ /\ position_reports' = position_reports \o allPositionReports \o allPositionReports
          /\ pc' = "updateCompleted"
          /\ thrown' = thrown
       \/ /\ position_reports' = position_reports
          /\ thrown' = [message |-> InsertErrorPrefix \o StoreError.message]
          /\ pc' = "updateFailed"
    /\ UNCHANGED <<reports, runVars, execVars, searchCalls, searchFailed, groupSleeps,
                   reportUpdates>>
    /\ UNCHANGED outerVars

\* the bulk insert followed by a stamp on the postings it covered
InsertPositionReports_StampsVacancies ==
    /\ pc = "insertPositions"
    /\ lastSearch' = NoSearch
    /\ \/ /\ position_reports' = position_reports \o allPositionReports
          /\ vacancies_table' =
                [ i \in DOMAIN vacancies_table |->
                    IF \E k \in DOMAIN vacancies : vacancies[k].id = vacancies_table[i].id
                    THEN [vacancies_table[i] EXCEPT !.status = "tracked"]
                    ELSE vacancies_table[i] ]
          /\ pc' = "updateCompleted"
          /\ thrown' = thrown
       \/ /\ position_reports' = position_reports
          /\ vacancies_table' = vacancies_table
          /\ thrown' = [message |-> InsertErrorPrefix \o StoreError.message]
          /\ pc' = "updateFailed"
    /\ UNCHANGED <<reports, runVars, execVars, searchCalls, searchFailed, groupSleeps,
                   reportUpdates, processExit, stageLog, syncVars, fetchVars>>

\* lines 105-112 / 116-122: the bulk insert settles
InsertPositionReports ==
    /\ pc = "insertPositions"
    /\ lastSearch' = NoSearch
    /\ \/ /\ position_reports' = position_reports \o allPositionReports
          /\ pc' = "updateCompleted"
          /\ thrown' = thrown
       \/ \* if (insertError) throw new Error(...): caught at line 116
          /\ position_reports' = position_reports
          /\ thrown' = [message |-> InsertErrorPrefix \o StoreError.message]
          /\ pc' = "updateFailed"
    /\ UNCHANGED <<reports, runVars, execVars, searchCalls, searchFailed, groupSleeps,
                   reportUpdates>>
    /\ UNCHANGED outerVars

\* what update(fields).eq('id', id) does to the table when the store accepts it
UpdateReport(table, id, fields) ==
    [ i \in DOMAIN table |->
        IF table[i].id = id
        THEN [ f \in DOMAIN table[i] \cup DOMAIN fields |->
                 IF f \in DOMAIN fields THEN fields[f] ELSE table[i][f] ]
        ELSE table[i] ]

\* the update to completed whose await rejects after the store applied it
UpdateCompleted_ThenThrows ==
    LET fields == [status |-> "completed",
                   processed_vacancies |-> processedCount,
                   completed_at |-> "now"]
    IN  /\ pc = "updateCompleted"
        /\ reportUpdates' = Append(reportUpdates, fields)
        /\ reports' = UpdateReport(reports, currentReportId, fields)
        /\ thrown' = StoreError
        /\ pc' = "updateFailed"
        /\ UNCHANGED <<position_reports, runVars, execVars, searchCalls,
                       lastSearch, searchFailed, groupSleeps>>
        /\ UNCHANGED outerVars

\* lines 109-114: the update to completed settles; its result is not read
UpdateCompleted ==
    LET fields == [status |-> "completed",
                   processed_vacancies |-> processedCount,
                   completed_at |-> "now"]
    IN  /\ pc = "updateCompleted"
        /\ reportUpdates' = Append(reportUpdates, fields)
        /\ \/ reports' = UpdateReport(reports, currentReportId, fields)
           \/ reports' = reports
        /\ pc' = "returned"
        /\ UNCHANGED <<thrown, position_reports, runVars, execVars, searchCalls,
                       lastSearch, searchFailed, groupSleeps>>
        /\ UNCHANGED outerVars

\* the update to failed with the count as it was declared at line 45
UpdateFailed_CountZero ==
    LET fields == [status |-> "failed",
                   processed_vacancies |-> 0,
                   error_message |-> thrown.message,
                   completed_at |-> "now"]
    IN  /\ pc = "updateFailed"
        /\ reportUpdates' = Append(reportUpdates, fields)
        /\ \/ reports' = UpdateReport(reports, currentReportId, fields)
           \/ reports' = reports
        /\ pc' = "raised"
        /\ UNCHANGED <<thrown, position_reports, runVars, execVars, searchCalls,
                       lastSearch, searchFailed, groupSleeps>>
        /\ UNCHANGED outerVars

\* lines 119-123: the update to failed settles; its result is not read; throw error
UpdateFailed ==
    LET fields == [status |-> "failed",
                   processed_vacancies |-> processedCount,
                   error_message |-> thrown.message,
                   completed_at |-> "now"]
    IN  /\ pc = "updateFailed"
        /\ reportUpdates' = Append(reportUpdates, fields)
        /\ \/ reports' = UpdateReport(reports, currentReportId, fields)
           \/ reports' = reports
        /\ pc' = "raised"
        /\ UNCHANGED <<thrown, position_reports, runVars, execVars, searchCalls,
                       lastSearch, searchFailed, groupSleeps>>
        /\ UNCHANGED outerVars

(***************************************************************************)
(* index.js: main (lines 18-29), from its await of the tracking stage on.  *)
(* Nothing in index.js sets an exit code or re-throws: when main's promise *)
(* resolves the event loop drains and the process ends as a success.       *)
(***************************************************************************)
\* line 24 throws, lines 26-28: catch (error) { console.error(...) }
MainCatch ==
    /\ pc = "raised"
    /\ processExit = "running"
    /\ processExit' = "success"
    /\ stageLog' = Append(stageLog, Raised(PendingStage))
    /\ UNCHANGED <<pc, thrown, vacancies_table, storeVars, runVars, execVars, histVars,
                   syncVars, fetchVars>>

\* line 24 returns, line 25 logs, main returns
MainReturns ==
    /\ pc = "returned"
    /\ processExit = "running"
    /\ processExit' = "success"
    /\ stageLog' = Append(stageLog, Returned(PendingStage))
    /\ UNCHANGED <<pc, thrown, vacancies_table, storeVars, runVars, execVars, histVars,
                   syncVars, fetchVars>>

Next ==
    \/ SelectVacancies
    \/ InsertReport
    \/ HttpSuccess
    \/ HttpFailure
    \/ BackoffElapsed
    \/ GroupSleepElapsed
    \/ InsertPositionReports
    \/ UpdateCompleted
    \/ UpdateFailed
    \/ MainCatch
    \/ MainReturns

Spec == Init /\ [][Next]_vars

(***************************************************************************)
(* makeRequestWithRetries on its own: one call with the default arguments, *)
(* against every failure an attempt can end with.                          *)
(***************************************************************************)
AllErrors == { HttpError(status) : status \in FailureStatuses } \cup { NetworkError }

\* utils.js 19-21: the call is made and issues its first attempt
InitRetry ==
    /\ pc = "request"
    /\ thrown = None
    /\ reports = <<>>
    /\ position_reports = <<>>
    /\ vacancies_table = StoredVacancies({})
    /\ processExit = "running"
    /\ stageLog = EarlierStagesReturned
    /\ inFlight = 1
    /\ vacancies = <<>>
    /\ groupedVacancies = <<>>
    /\ currentReportId = 0
    /\ allPositionReports = <<>>
    /\ processedCount = 0
    /\ groupIndex = 0
    /\ attempt = 1
    /\ attemptLog = <<>>
    /\ sleeps = <<>>
    /\ requests = 1
    /\ searchCalls = <<>>
    /\ lastSearch = NoSearch
    /\ searchFailed = {}
    /\ groupSleeps = <<>>
    /\ reportUpdates = <<>>
    /\ SyncNotCalled
    /\ FetchNotCalled

\* utils.js 21-22: return response
RetryReturns ==
    /\ pc = "request"
    /\ inFlight' = inFlight - 1
    /\ pc' = "execReturned"
    /\ UNCHANGED <<thrown, storeVars, runVars, attempt, attemptLog, sleeps, requests,
                   histVars>>
    /\ UNCHANGED outerVars

\* utils.js 29-31: throw error
RetryThrows(error) ==
    /\ pc = "request"
    /\ ~RetriesAfter(error, attempt)
    /\ attemptLog' = Append(attemptLog, error)
    /\ thrown' = error
    /\ inFlight' = inFlight - 1
    /\ pc' = "execThrown"
    /\ UNCHANGED <<attempt, sleeps, requests, storeVars, runVars, histVars>>
    /\ UNCHANGED outerVars

RetryFailure ==
    \E error \in AllErrors : HttpFailureRetried(error) \/ RetryThrows(error)

NextRetry ==
    \/ RetryReturns
    \/ RetryFailure
    \/ BackoffElapsed

SpecRetry == InitRetry /\ [][NextRetry]_vars

(***************************************************************************)
(* Vocabulary of the properties.                                           *)
(***************************************************************************)
Triple(v) == <<v.normalized_title, v.area_id, v.schedule_id>>

\* the rows of the outcome buffer that belong to posting v
RowsOf(v) == { i \in DOMAIN allPositionReports : allPositionReports[i].vacancy_id = v.id }

\* the try/catch of group g is over
GroupResolved(g) ==
    \/ g < groupIndex
    \/ g = groupIndex /\ pc \notin {"request", "backoff"}

\* the for loop over the groups is over
LoopOver ==
    \/ pc \in {"insertPositions", "updateCompleted", "updateFailed"}
    \/ pc \in {"returned", "raised"} /\ reports # <<>>

\* the search of group groupIndex has just been answered with a body of the
\* documented shape, and the group resolved from it
JustResolved ==
    /\ lastSearch.kind = "response"
    /\ ~ResolutionThrows(lastSearch.data)

\* posting v is at 1-based place i of the item list
ItemAt(items, i, v) == items[i].id = ToString(v.hh_vacancy_id)

Absent(items, v) == \A i \in DOMAIN items : ~ItemAt(items, i, v)

(***************************************************************************)
(* C1: when run returns or raises, no report is still pending: the status  *)
(* of the report of the run is completed or failed.                        *)
(* The code does not read the result of either status update (lines        *)
(* 109-112, 119-122): a refused update leaves the report pending.          *)
(***************************************************************************)
C1_ReportTerminalAtEnd ==
    pc \in {"returned", "raised"} =>
        \A i \in DOMAIN reports : reports[i].status \in {"completed", "failed"}

(***************************************************************************)
(* C2: if the search call of a group throws, every posting of the group    *)
(* has exactly one outcome, with the failure sentinel, competitor count 0  *)
(* and a non-empty error message; the run raises only for a failed bulk    *)
(* insert, never for the search; and when the loop is over every group has *)
(* been searched and every posting has its outcome.                        *)
(***************************************************************************)
C2_FailedGroupIsolated ==
    \A g \in searchFailed :
        /\ \A k \in DOMAIN Members(g) :
             /\ Cardinality(RowsOf(Members(g)[k])) = 1
             /\ \A i \in RowsOf(Members(g)[k]) :
                  /\ allPositionReports[i].position = Str(ErrorText)
                  /\ allPositionReports[i].competitors_count = 0
                  /\ "error_message" \in DOMAIN allPositionReports[i]
                  /\ allPositionReports[i].error_message # ""
        /\ pc = "raised" => thrown.message = InsertErrorPrefix \o StoreError.message
        /\ pc \in {"groupSleep", "request", "backoff"} => groupIndex <= Len(groupedVacancies)
        /\ LoopOver =>
             /\ Len(searchCalls) = Len(groupedVacancies)
             /\ \A k \in DOMAIN vacancies : Cardinality(RowsOf(vacancies[k])) = 1

\* the search of the first group failed and a later group was resolved to a rank
C2_Witness ==
    /\ pc = "returned"
    /\ 1 \in searchFailed
    /\ Len(groupedVacancies) >= 2
    /\ \E i \in DOMAIN allPositionReports : allPositionReports[i].position.t = "number"

(***************************************************************************)
(* C3: after a successful search, a posting of the group whose external    *)
(* id is at 0-based index i of the item list has the position i + 1.       *)
(***************************************************************************)
C3_RankIsIndexPlusOne ==
    JustResolved =>
        \A k \in DOMAIN Members(groupIndex) :
            \A i \in DOMAIN lastSearch.data.items :
                ItemAt(lastSearch.data.items, i, Members(groupIndex)[k]) =>
                    /\ RowsOf(Members(groupIndex)[k]) # {}
                    /\ \A r \in RowsOf(Members(groupIndex)[k]) :
                         allPositionReports[r].position = Num((i - 1) + 1)

\* a posting found at index 1 (the second item)
C3_Witness ==
    /\ JustResolved
    /\ \E k \in DOMAIN Members(groupIndex) :
         /\ Len(lastSearch.data.items) >= 2
         /\ ItemAt(lastSearch.data.items, 2, Members(groupIndex)[k])

(***************************************************************************)
(* C4: after a successful search, a posting of the group that is absent    *)
(* from the item list has the position 100 if and only if pages > 1, and   *)
(* the "not found" sentinel otherwise.                                     *)
(* The code tests pages > 0 (line 77): with exactly one page it writes 100.*)
(***************************************************************************)
C4_AbsentSentinel ==
    JustResolved =>
        \A k \in DOMAIN Members(groupIndex) :
            Absent(lastSearch.data.items, Members(groupIndex)[k]) =>
                \A r \in RowsOf(Members(groupIndex)[k]) :
                    allPositionReports[r].position =
                        IF lastSearch.data.pages > 1 THEN Num(100) ELSE Str(NotFoundText)

(***************************************************************************)
(* C5: every posting of a group whose search succeeded has the same        *)
(* competitor count, the found of that search.                             *)
(***************************************************************************)
C5_GroupSharesFound ==
    /\ JustResolved =>
         \A k \in DOMAIN Members(groupIndex) :
             /\ RowsOf(Members(groupIndex)[k]) # {}
             /\ \A r \in RowsOf(Members(groupIndex)[k]) :
                  allPositionReports[r].competitors_count = lastSearch.data.found
    /\ \A g \in DOMAIN groupedVacancies :
         GroupResolved(g) =>
             \A k, l \in DOMAIN Members(g) :
                 \A r \in RowsOf(Members(g)[k]), q \in RowsOf(Members(g)[l]) :
                     allPositionReports[r].competitors_count =
                         allPositionReports[q].competitors_count

\* a group of two postings resolved from a search that found three
C5_Witness ==
    /\ JustResolved
    /\ Len(Members(groupIndex)) >= 2
    /\ lastSearch.data.found = 3

(***************************************************************************)
(* C6: the number of groups equals the number of distinct (normalized      *)
(* term, area id, schedule id) triples of the list, and two postings share *)
(* a group if and only if their three fields are equal.                    *)
(* The code groups by the string term_area_schedule (line 27): ("a", 1,    *)
(* "2_x") and ("a_1", 2, "x") both give "a_1_2_x" and share one group.     *)
(***************************************************************************)
GroupOf(k) ==
    CHOOSE g \in DOMAIN groupedVacancies :
        \E m \in DOMAIN Members(g) : Members(g)[m] = vacancies[k]

\* C6: as many groups as distinct triples, and same group iff same triple
C6_GroupsAreTriples ==
    vacancies # <<>> =>
        /\ Len(groupedVacancies) = Cardinality({ Triple(vacancies[k]) : k \in DOMAIN vacancies })
        /\ \A k, l \in DOMAIN vacancies :
             (GroupOf(k) = GroupOf(l)) <=> (Triple(vacancies[k]) = Triple(vacancies[l]))

(***************************************************************************)
(* C7: the groups partition the eligible postings: every posting is at     *)
(* exactly one place of exactly one group, no group is empty, the sizes    *)
(* add up to the number of postings, and there are at most as many groups  *)
(* as postings.                                                            *)
(***************************************************************************)
PlacesOf(v) ==
    { <<g, m>> \in (DOMAIN groupedVacancies) \X (1..Len(vacancies)) :
        m \in DOMAIN Members(g) /\ Members(g)[m] = v }

RECURSIVE SumOfSizes(_)
SumOfSizes(g) == IF g = 0 THEN 0 ELSE Len(Members(g)) + SumOfSizes(g - 1)

\* C7: the groups are a partition of the list of eligible postings
C7_GroupsPartition ==
    /\ \A k \in DOMAIN vacancies : Cardinality(PlacesOf(vacancies[k])) = 1
    /\ \A g \in DOMAIN groupedVacancies :
         /\ Len(Members(g)) >= 1
         /\ Len(Members(g)) <= Len(vacancies)
         /\ \A m \in DOMAIN Members(g) : Members(g)[m] \in Range(vacancies)
    /\ SumOfSizes(Len(groupedVacancies)) = Len(vacancies)
    /\ Len(groupedVacancies) <= Len(vacancies)

\* three postings in two groups, the postings of the larger group apart in the list
C7_Witness ==
    /\ Len(vacancies) = 3
    /\ Len(groupedVacancies) = 2
    /\ Len(Members(1)) = 2
    /\ Members(1)[2] = vacancies[3]

(***************************************************************************)
(* C8: the executor is called once per group: the calls made so far are    *)
(* those of the groups reached so far, each with the triple of the group's *)
(* first posting; when the loop is over there are as many calls as groups; *)
(* and no two calls of the run carry the same (text, area, schedule).      *)
(***************************************************************************)
C8_OneCallPerGroup ==
    /\ Len(searchCalls) = groupIndex
    /\ groupIndex <= Len(groupedVacancies)
    /\ LoopOver => Len(searchCalls) = Len(groupedVacancies)
    /\ \A g \in DOMAIN searchCalls :
         <<searchCalls[g].text, searchCalls[g].area, searchCalls[g].schedule>>
             = Triple(Members(g)[1])
    /\ \A g, h \in DOMAIN searchCalls : g # h => searchCalls[g] # searchCalls[h]

\* the run is over for three postings, two of them with the same triple
C8_Witness ==
    /\ pc = "returned"
    /\ Len(vacancies) = 3
    /\ Len(searchCalls) = 2
    /\ \E k, l \in DOMAIN vacancies : k # l /\ Triple(vacancies[k]) = Triple(vacancies[l])

(***************************************************************************)
(* C9: when the insert of the report row fails, run raises with no search  *)
(* request issued, no outcome row written and no report row in the store.  *)
(***************************************************************************)
ReportInsertFailed ==
    /\ pc = "raised"
    /\ thrown.message = ReportErrorPrefix \o StoreError.message

\* C9: a failed report insert raises before any search, outcome row or report row
C9_ReportInsertFailureIsFatal ==
    ReportInsertFailed =>
        /\ searchCalls = <<>>
        /\ requests = 0
        /\ position_reports = <<>>
        /\ reports = <<>>

C9_Witness ==
    /\ ReportInsertFailed
    /\ Len(vacancies) = MaxVacancies

(***************************************************************************)
(* C10: one call of makeRequestWithRetries with the default 5 attempts     *)
(* issues at most 5 requests; a further request is issued only after every *)
(* earlier one failed with a status in {403, 429, 500, 502, 503, 504}; the *)
(* call returns on the first success, all requests before it having failed *)
(* so; and after 5 such failures it throws.                                *)
(***************************************************************************)
RetryableAsClaimed(error) ==
    error.response /\ error.status \in {403, 429, 500, 502, 503, 504}

\* C10: at most 5 requests, retried only after retryable failures, throws after the 5th
C10_BoundedRetries ==
    /\ requests <= 5
    /\ pc \in {"request", "execReturned"} =>
         /\ Len(attemptLog) = requests - 1
         /\ \A k \in DOMAIN attemptLog : RetryableAsClaimed(attemptLog[k])
    /\ pc \in {"backoff", "execThrown"} =>
         /\ Len(attemptLog) = requests
         /\ \A k \in 1..(requests - 1) : RetryableAsClaimed(attemptLog[k])
    /\ pc = "backoff" => RetryableAsClaimed(attemptLog[requests])
    /\ Len(attemptLog) = 5 => pc = "execThrown"
    /\ pc = "execThrown" =>
         \/ ~RetryableAsClaimed(attemptLog[requests])
         \/ requests = 5

\* five answers 429 in a row, and the call threw
C10_Witness ==
    /\ pc = "execThrown"
    /\ Len(attemptLog) = 5
    /\ \A k \in DOMAIN attemptLog : attemptLog[k] = HttpError(429)

(***************************************************************************)
(* C11: in one call of makeRequestWithRetries with the defaults, the k-th  *)
(* sleep is exactly baseDelay * 2^(k-1) (2000, 4000, 8000, 16000 ms) and   *)
(* follows failed attempt k, k < 5: there is one sleep per attempt that    *)
(* was followed by another, and none after a success, after a              *)
(* non-retryable failure or after the fifth attempt.                       *)
(***************************************************************************)
DefaultBackoff == <<2000, 4000, 8000, 16000>>

\* C11: the sleeps of a call are the first requests - 1 default backoff delays
C11_BackoffDelays ==
    /\ Len(sleeps) <= 4
    /\ \A k \in DOMAIN sleeps : sleeps[k] = DefaultBackoff[k]
    /\ pc = "backoff" => Len(sleeps) = requests /\ requests < 5
    /\ pc \in {"request", "execReturned", "execThrown"} => Len(sleeps) = requests - 1

\* the call threw at its fifth attempt, having slept four times
C11_Witness ==
    /\ pc = "execThrown"
    /\ requests = 5
    /\ sleeps = <<2000, 4000, 8000, 16000>>

(***************************************************************************)
(* C12: an attempt that fails with a response whose status is outside      *)
(* {403, 429, 500, 502, 503, 504} is the last of the call: the call throws *)
(* that error at once, with no sleep after it and no further request,      *)
(* however many attempts remain.                                           *)
(***************************************************************************)
NonRetryableResponse(error) ==
    error.response /\ error.status \notin {403, 429, 500, 502, 503, 504}

\* C12: a non-retryable response ends the call where it is
C12_NonRetryableThrowsAtOnce ==
    \A k \in DOMAIN attemptLog :
        NonRetryableResponse(attemptLog[k]) =>
            /\ k = Len(attemptLog)
            /\ pc = "execThrown"
            /\ thrown = attemptLog[k]
            /\ requests = k
            /\ Len(sleeps) = k - 1

\* the second attempt was answered 404 with three attempts left
C12_Witness ==
    /\ pc = "execThrown"
    /\ Len(attemptLog) = 2
    /\ attemptLog[2] = HttpError(404)

(***************************************************************************)
(* C13: the detail fetch of syncVacanciesInDB (syncService.js 104-108)     *)
(* calls makeRequestWithRetries with the defaults; the property says a     *)
(* failure without a response is retried while attempts remain.            *)
(* The code tests error.response && ... (utils.js 24): without a response  *)
(* isRetryable is falsy and the call throws at the first such failure.     *)
(***************************************************************************)
\* C13: a failure without a response is followed by a sleep and another attempt
C13_NetworkFailureRetried ==
    \A k \in DOMAIN attemptLog :
        (~attemptLog[k].response /\ k < 5) =>
            /\ pc # "execThrown" \/ k < Len(attemptLog)
            /\ Len(sleeps) >= k

(***************************************************************************)
(* Vocabulary of the report lifecycle.                                     *)
(***************************************************************************)
\* the rows of the store that reference report id and posting v
StoredRowsOf(id, v) ==
    { k \in DOMAIN position_reports :
        position_reports[k].report_id = id /\ position_reports[k].vacancy_id = v.id }

\* every outcome of the buffer is a row of the store
BufferPersisted ==
    \A k \in DOMAIN allPositionReports : allPositionReports[k] \in Range(position_reports)

\* the run raised out of the try block that follows the creation of the report
RaisedAfterReport == pc = "raised" /\ reports # <<>>

(***************************************************************************)
(* C14: status completed is written only after the bulk insert of all the  *)
(* accumulated outcomes has succeeded, and the processed count written     *)
(* with it is the number of outcomes of the run, one per eligible posting. *)
(***************************************************************************)
C14_CompletedAfterPersist ==
    /\ pc = "updateCompleted" =>
         /\ allPositionReports # <<>>
         /\ position_reports = allPositionReports
    /\ \A k \in DOMAIN reportUpdates :
         reportUpdates[k].status = "completed" =>
             /\ position_reports = allPositionReports
             /\ reportUpdates[k].processed_vacancies = Len(allPositionReports)
             /\ reportUpdates[k].processed_vacancies = Len(vacancies)
    /\ \A i \in DOMAIN reports :
         reports[i].status = "completed" =>
             /\ BufferPersisted
             /\ reports[i].processed_vacancies = Len(allPositionReports)
             /\ \A v \in Range(vacancies) : Cardinality(RowsOf(v)) = 1

\* a report of three postings is completed
C14_Witness ==
    /\ pc = "returned"
    /\ Len(vacancies) = 3
    /\ reports # <<>>
    /\ reports[1].status = "completed"
    /\ reports[1].processed_vacancies = 3

(***************************************************************************)
(* C15: when an exception escapes the try block after the report was       *)
(* created (the bulk insert fails), run issues the update of the report to *)
(* failed with the number of outcomes accumulated so far as processed      *)
(* count and the exception's message as error message, and then throws     *)
(* that same exception.                                                    *)
(***************************************************************************)
C15_FailedReportWritten ==
    /\ pc = "updateFailed" => thrown = [message |-> InsertErrorPrefix \o StoreError.message]
    /\ RaisedAfterReport =>
         /\ thrown = [message |-> InsertErrorPrefix \o StoreError.message]
         /\ Len(reportUpdates) = 1
         /\ reportUpdates[1].status = "failed"
         /\ reportUpdates[1].processed_vacancies = Len(allPositionReports)
         /\ reportUpdates[1].error_message = thrown.message
         /\ reports[1].status # "pending" =>
              /\ reports[1].status = "failed"
              /\ reports[1].processed_vacancies = Len(allPositionReports)
              /\ reports[1].error_message = thrown.message

\* the bulk insert of three outcomes failed and the report says so
C15_Witness ==
    /\ RaisedAfterReport
    /\ Len(vacancies) = 3
    /\ reports[1].status = "failed"
    /\ reports[1].processed_vacancies = 3

(***************************************************************************)
(* C16: whenever a run ends with its report failed, the outcomes that were *)
(* accumulated before the failure are rows of the store.                   *)
(* The only exception the try block lets out is the failure of the bulk    *)
(* insert itself (line 106), after which nothing is written but the report *)
(* (lines 119-122): the outcomes of a failed report are never stored.      *)
(***************************************************************************)
C16_PartialResultsPersisted ==
    (pc \in {"returned", "raised"} /\ reports # <<>> /\ reports[1].status = "failed")
        => BufferPersisted

(***************************************************************************)
(* C17: for every report that is completed or failed, the store holds      *)
(* exactly one outcome row per eligible posting that references it.        *)
(* A failed report has no rows at all (see C16).                           *)
(***************************************************************************)
C17_OneRowPerPostingPerReport ==
    \A i \in DOMAIN reports :
        reports[i].status \in {"completed", "failed"} =>
            \A v \in Range(vacancies) : Cardinality(StoredRowsOf(reports[i].id, v)) = 1

(***************************************************************************)
(* C18: in every state of a run the processed count of a report, where one *)
(* was written, is at most the report's total count; so are the count the  *)
(* run holds and every count it sends.                                     *)
(***************************************************************************)
C18_ProcessedAtMostTotal ==
    /\ \A i \in DOMAIN reports :
         "processed_vacancies" \in DOMAIN reports[i] =>
             reports[i].processed_vacancies <= reports[i].total_vacancies
    /\ reports # <<>> =>
         /\ processedCount <= reports[1].total_vacancies
         /\ \A k \in DOMAIN reportUpdates :
              reportUpdates[k].processed_vacancies <= reports[1].total_vacancies

\* a report carries a processed count, which is its total
C18_Witness ==
    /\ reports # <<>>
    /\ "processed_vacancies" \in DOMAIN reports[1]
    /\ reports[1].processed_vacancies = reports[1].total_vacancies
    /\ reports[1].total_vacancies = MaxVacancies

(***************************************************************************)
(* C19: a report is created pending; in every step a status that changes   *)
(* goes from pending to completed or failed, never between the terminal    *)
(* statuses nor back to pending; and a run issues at most one update of    *)
(* the report.                                                             *)
(***************************************************************************)
StatusStep ==
    /\ \A i \in DOMAIN reports :
         /\ i \in DOMAIN reports'
         /\ reports'[i].status # reports[i].status =>
              /\ reports[i].status = "pending"
              /\ reports'[i].status \in {"completed", "failed"}
    /\ \A i \in (DOMAIN reports') \ (DOMAIN reports) : reports'[i].status = "pending"
    /\ Len(reportUpdates') <= 1

\* C19: the status of a report is monotonic and finalized at most once
C19_StatusMonotonic == [][StatusStep]_vars

\* a report was finalized as failed
C19_Witness ==
    /\ reports # <<>>
    /\ reports[1].status = "failed"
    /\ Len(reportUpdates) = 1

(***************************************************************************)
(* C20: with G groups the run sleeps 500 ms exactly G - 1 times: once      *)
(* after each group but the last, when the outcomes of the group are in    *)
(* the buffer and the request of the next group is not yet issued, whether *)
(* the search of the group succeeded or failed; and not after the last.    *)
(***************************************************************************)
C20_InterGroupDelay ==
    /\ \A k \in DOMAIN groupSleeps : groupSleeps[k] = 500
    /\ pc \in {"request", "backoff"} => Len(groupSleeps) = groupIndex - 1
    /\ pc = "groupSleep" =>
         /\ Len(groupSleeps) = groupIndex
         /\ groupIndex < Len(groupedVacancies)
         /\ Len(searchCalls) = groupIndex
         /\ \A m \in DOMAIN Members(groupIndex) :
              Cardinality(RowsOf(Members(groupIndex)[m])) = 1
    /\ LoopOver => Len(groupSleeps) = Len(groupedVacancies) - 1

\* three groups, the first failed and the second resolved: two sleeps
C20_Witness ==
    /\ pc = "returned"
    /\ Len(groupedVacancies) = 3
    /\ groupSleeps = <<500, 500>>
    /\ 1 \in searchFailed
    /\ 2 \notin searchFailed

(***************************************************************************)
(* C21: at most one search request is in flight at any moment, and while   *)
(* group k is being searched (a request in flight or a backoff running)    *)
(* no call was made for a later group, every posting of the groups before  *)
(* k has its outcome in the buffer and no posting of group k has one yet.  *)
(***************************************************************************)
C21_OneRequestAtATime ==
    /\ inFlight \in {0, 1}
    /\ inFlight = 1 <=> pc = "request"
    /\ pc \in {"request", "backoff"} =>
         /\ Len(searchCalls) = groupIndex
         /\ \A g \in 1..(groupIndex - 1) :
              \A m \in DOMAIN Members(g) : Cardinality(RowsOf(Members(g)[m])) = 1
         /\ \A m \in DOMAIN Members(groupIndex) : RowsOf(Members(groupIndex)[m]) = {}

\* the request of the second group is in flight after the first group failed
C21_Witness ==
    /\ pc = "request"
    /\ groupIndex = 2
    /\ inFlight = 1
    /\ 1 \in searchFailed
    /\ Len(allPositionReports) = Len(Members(1))

(***************************************************************************)
(* C22: the outcome buffer is ordered: of two outcomes of one group the    *)
(* earlier is that of the posting that comes first in the eligible list,   *)
(* and of two outcomes of different groups the earlier is that of the      *)
(* group whose key appears first in the list.                              *)
(***************************************************************************)
\* the place of the posting with this id in the eligible list
ListIndex(id) == CHOOSE k \in DOMAIN vacancies : vacancies[k].id = id

\* the first place of the list whose posting has this key
FirstIndexOfKey(key) ==
    CHOOSE k \in DOMAIN vacancies :
        /\ GroupKey(vacancies[k]) = key
        /\ \A j \in 1..(k - 1) : GroupKey(vacancies[j]) # key

\* the rows of a buffer follow the order of first appearance of the keys of
\* their postings and, within one key, the order of the list
BufferOrdered(buffer) ==
    \A i, j \in DOMAIN buffer :
        i < j =>
            LET p == ListIndex(buffer[i].vacancy_id)
                q == ListIndex(buffer[j].vacancy_id)
            IN  IF GroupKey(vacancies[p]) = GroupKey(vacancies[q])
                THEN p < q
                ELSE FirstIndexOfKey(GroupKey(vacancies[p])) < FirstIndexOfKey(GroupKey(vacancies[q]))

\* C22: the buffer starts empty and every step that changes it leaves it in
\* the order of first appearance of the keys, then of the list
C22_BufferOrdered ==
    [][allPositionReports' # allPositionReports => BufferOrdered(allPositionReports')]_vars

\* the third posting of the list shares the group of the first: its outcome
\* comes second in the buffer, before that of the second posting
C22_Witness ==
    /\ Len(allPositionReports) = 3
    /\ allPositionReports[1].vacancy_id = vacancies[1].id
    /\ allPositionReports[2].vacancy_id = vacancies[3].id
    /\ allPositionReports[3].vacancy_id = vacancies[2].id

(***************************************************************************)
(* C23: when run raises, the process that invoked it ends as a failure.    *)
(* main wraps its stages in try/catch and the catch only logs (index.js    *)
(* 26-28): main returns normally and the process ends as a success.        *)
(***************************************************************************)
C23_RaiseFailsProcess ==
    (pc = "raised" /\ processExit # "running") => processExit = "failure"

(***************************************************************************)
(* C24: every run that ends without the store having refused a call before *)
(* or at the report insert has created exactly one report row, for every   *)
(* set of eligible postings, the empty set included.                       *)
(* With no eligible posting the run returns at line 22, before the insert  *)
(* of line 35: no report row is created.                                   *)
(***************************************************************************)
ReportInsertRefused ==
    thrown \in {StoreError, [message |-> ReportErrorPrefix \o StoreError.message]}

\* C24: one report row per run, whatever the eligible set
C24_OneReportPerRun ==
    (pc \in {"returned", "raised"} /\ ~ReportInsertRefused) => Len(reports) = 1

(***************************************************************************)
(* C25: no step of a run, successful or failed, changes the vacancies      *)
(* table.                                                                  *)
(***************************************************************************)
C25_VacanciesReadOnly == [][vacancies_table' = vacancies_table]_vars

\* a run over three postings failed, and the table still has its three active rows
C25_Witness ==
    /\ pc = "raised"
    /\ Len(vacancies) = 3
    /\ reports # <<>>
    /\ reports[1].status = "failed"
    /\ SelectActive(vacancies_table) = vacancies

(***************************************************************************)
(* C26: once a group is resolved, the processed count a failure            *)
(* finalization would write equals the length of the outcome buffer.       *)
(* processedCount is declared 0 at line 45 and assigned once, at line 101, *)
(* after the loop: between groups it is 0 while the buffer grows.          *)
(***************************************************************************)
C26_RunningProcessedCount ==
    pc \in {"groupSleep", "insertPositions", "updateCompleted", "updateFailed"} =>
        processedCount = Len(allPositionReports)

(***************************************************************************)
(* C27: for every posting that has an outcome, the search call of its      *)
(* group carried the posting's own normalized title, area id and schedule  *)
(* id.                                                                     *)
(* Postings ("a", 1, "2_x") and ("a_1", 2, "x") share the key "a_1_2_x"    *)
(* (line 27): the second is ranked in a search made with the fields of the *)
(* first.                                                                  *)
(***************************************************************************)
C27_SearchedWithOwnFields ==
    \A g \in DOMAIN searchCalls :
        \A m \in DOMAIN Members(g) :
            RowsOf(Members(g)[m]) # {} =>
                Triple(Members(g)[m])
                    = <<searchCalls[g].text, searchCalls[g].area, searchCalls[g].schedule>>

(***************************************************************************)
(* C28: from the creation of the report until the last group is resolved   *)
(* the report row is untouched: a step taken while a group is searched or  *)
(* the run sleeps between groups leaves both tables as they are, the       *)
(* report pending without a processed count, and only appends to the       *)
(* outcome buffer.                                                         *)
(***************************************************************************)
InLoop == pc \in {"request", "backoff", "groupSleep"}

LoopStep ==
    InLoop =>
        /\ reports' = reports
        /\ position_reports' = position_reports
        /\ reports[currentReportId].status = "pending"
        /\ "processed_vacancies" \notin DOMAIN reports[currentReportId]
        /\ Len(allPositionReports') >= Len(allPositionReports)
        /\ SubSeq(allPositionReports', 1, Len(allPositionReports)) = allPositionReports

\* C28: resolving the groups leaves the report row unchanged
C28_ReportUntouchedInLoop == [][LoopStep]_vars

\* two groups are resolved, the first a failure, and the report is still as created
C28_Witness ==
    /\ pc = "insertPositions"
    /\ Len(groupedVacancies) = 2
    /\ 1 \in searchFailed
    /\ 2 \notin searchFailed
    /\ reports[1] = [id |-> 1, status |-> "pending", total_vacancies |-> Len(vacancies)]

(***************************************************************************)
(* C29: whenever a search request has been issued, the store holds the     *)
(* report row of the run with total count equal to the number of eligible  *)
(* postings, and the row is pending when the first request goes out.       *)
(***************************************************************************)
C29_ReportBeforeFirstRequest ==
    /\ (searchCalls # <<>> \/ inFlight > 0 \/ requests > 0) =>
         /\ currentReportId \in DOMAIN reports
         /\ reports[currentReportId].total_vacancies = Len(vacancies)
    /\ (pc = "request" /\ groupIndex = 1 /\ requests = 1) =>
         reports[currentReportId].status = "pending"

\* the first request of a run over three postings in two groups is in flight
C29_Witness ==
    /\ pc = "request"
    /\ groupIndex = 1
    /\ requests = 1
    /\ Len(vacancies) = 3
    /\ Len(groupedVacancies) = 2

(***************************************************************************)
(* C30: the outcome table is empty or holds the whole buffer once: rows    *)
(* are written by at most one bulk insert, and not before every group is   *)
(* resolved; up to and including the await of that insert (where a kill of *)
(* the process may fall) the report is pending and no outcome row exists.  *)
(***************************************************************************)
BeforeBulkInsert ==
    pc \in {"select", "insertReport", "request", "backoff", "groupSleep", "insertPositions"}

\* C30: one bulk insert, after the loop; before it a pending report and no rows
C30_WriteOnceAfterLoop ==
    /\ position_reports = <<>> \/ position_reports = allPositionReports
    /\ position_reports # <<>> => LoopOver /\ groupIndex = Len(groupedVacancies)
    /\ BeforeBulkInsert =>
         /\ position_reports = <<>>
         /\ \A i \in DOMAIN reports : reports[i].status = "pending"

\* three outcomes are about to be inserted: the store has a pending report and no rows
C30_Witness ==
    /\ pc = "insertPositions"
    /\ Len(allPositionReports) = 3
    /\ position_reports = <<>>
    /\ reports[1].status = "pending"

(***************************************************************************)
(* The run under fair scheduling: every awaited call settles (the store    *)
(* answers with data or an error, an HTTP attempt ends with a response or  *)
(* an error) and every timer of sleep() fires.  Which of its outcomes a    *)
(* call settles with is left open.                                         *)
(***************************************************************************)
\* the awaits of run: the store calls, the HTTP attempt and the two sleeps
AwaitPoints ==
    {"select", "insertReport", "request", "backoff", "groupSleep",
     "insertPositions", "updateCompleted", "updateFailed"}

\* run has returned to its caller or raised to it
RunOver == pc \in {"returned", "raised"}

\* the settling of the call or timer the run is suspended at, as the code of
\* run continues after it
Settles ==
    \/ SelectVacancies
    \/ InsertReport
    \/ HttpFailure
    \/ HttpSuccess
    \/ BackoffElapsed
    \/ GroupSleepElapsed
    \/ InsertPositionReports
    \/ UpdateCompleted
    \/ UpdateFailed

\* the run leaves the await it is suspended at.  Among the steps of Next these
\* are the steps of Settles: each of them moves pc, and main's steps do not.
AwaitSettles ==
    /\ pc \in AwaitPoints
    /\ pc' \in (AwaitPoints \cup {"returned", "raised"}) \ {pc}

\* no awaited call and no timer stays pending forever
SpecLive == Init /\ [][Next]_vars /\ WF_pc(AwaitSettles)

\* the steps that move pc are the steps of Settles
SettlesMovesPc == [][(pc' # pc) <=> Settles]_vars

(***************************************************************************)
(* C31: if every store call and every HTTP attempt settles, run returns or *)
(* raises, after at most 5 HTTP attempts per group and at most G - 1       *)
(* inter-group delays for G groups.                                        *)
(***************************************************************************)
\* C31: run ends; until then some outcome of the pending call lets it go on;
\* no call takes more than 5 attempts, one call per group, at most G - 1 sleeps
C31_RunTerminates ==
    /\ <>RunOver
    /\ [](pc \in AwaitPoints => ENABLED Settles)
    /\ [](requests <= Retries)
    /\ [](Len(searchCalls) <= Len(groupedVacancies))
    /\ [](groupedVacancies # <<>> => Len(groupSleeps) <= Len(groupedVacancies) - 1)
    /\ [](groupedVacancies = <<>> => groupSleeps = <<>>)

\* a run over three groups has returned after two sleeps, a group having failed
C31_Witness ==
    /\ pc = "returned"
    /\ Len(groupedVacancies) = 3
    /\ Len(searchCalls) = 3
    /\ groupSleeps = <<GroupDelay, GroupDelay>>
    /\ searchFailed # {}

\* the search of group groupIndex was answered and resolving the body threw
ResolutionThrew ==
    /\ lastSearch.kind = "response"
    /\ ResolutionThrows(lastSearch.data)

(***************************************************************************)
(* C32: when the request succeeds but resolving its response throws, the   *)
(* group is handled as a failed group: one outcome per posting with the    *)
(* failure sentinel and competitor count 0, no posting with both a rank    *)
(* and a failure outcome, and the loop goes on with the next group.        *)
(* Everything that can throw at lines 67-71 (response.data.found,          *)
(* response.data.items.map, item.id) runs before the first push of line 82.*)
(***************************************************************************)
\* C32: a thrown resolution leaves one failure row per posting, no rank row, and the loop goes on
C32_ResolutionFailureIsolated ==
    /\ ResolutionThrew =>
         /\ \A k \in DOMAIN Members(groupIndex) :
              /\ Cardinality(RowsOf(Members(groupIndex)[k])) = 1
              /\ \A i \in RowsOf(Members(groupIndex)[k]) :
                   /\ allPositionReports[i].position = Str(ErrorText)
                   /\ allPositionReports[i].competitors_count = 0
         /\ groupIndex \notin searchFailed
         /\ pc = (IF groupIndex < Len(groupedVacancies) THEN "groupSleep" ELSE "insertPositions")
    /\ \A k \in DOMAIN vacancies :
         \A i, j \in RowsOf(vacancies[k]) :
             ~(allPositionReports[i].position = Str(ErrorText)
                 /\ allPositionReports[j].position # Str(ErrorText))
    /\ LoopOver =>
         /\ Len(searchCalls) = Len(groupedVacancies)
         /\ \A k \in DOMAIN vacancies : Cardinality(RowsOf(vacancies[k])) = 1

\* the first group's body had no item list, and the second group has since
\* been searched and resolved to a rank
C32_Witness ==
    /\ groupIndex = 2
    /\ JustResolved
    /\ 1 \notin searchFailed
    /\ \A k \in DOMAIN Members(1) :
         \E i \in RowsOf(Members(1)[k]) : allPositionReports[i].position = Str(ErrorText)
    /\ \E i \in DOMAIN allPositionReports : allPositionReports[i].position.t = "number"

\* the vacancies query answered without an error and with no eligible posting
NoEligiblePostings ==
    /\ pc # "select"
    /\ thrown = None
    /\ SelectActive(vacancies_table) = <<>>

(***************************************************************************)
(* C33: when the store returns no eligible posting, run returns normally   *)
(* without any search request, outcome row or report finalization.         *)
(***************************************************************************)
\* C33: an empty eligible list ends the run at once, nothing requested and nothing written
C33_EmptyListReturns ==
    NoEligiblePostings =>
        /\ pc = "returned"
        /\ searchCalls = <<>>
        /\ requests = 0
        /\ inFlight = 0
        /\ position_reports = <<>>
        /\ reportUpdates = <<>>
        /\ reports = <<>>

\* the table holds archived rows and a row without a normalized title only,
\* and run has returned
C33_Witness ==
    /\ pc = "returned"
    /\ vacancies_table = StoredVacancies({})
    /\ vacancies = <<>>
    /\ reports = <<>>
    /\ processExit = "running"

\* the vacancies query answered with an error, which run threw as it is
SelectFailed == thrown = StoreError

(***************************************************************************)
(* C34: when the query for the eligible postings fails, run raises at      *)
(* once: no report row, no search request, nothing written to the store.   *)
(***************************************************************************)
\* C34: a failed vacancies query ends the run raised, with no report, request or write
C34_SelectFailureRaises ==
    SelectFailed =>
        /\ pc = "raised"
        /\ vacancies = <<>>
        /\ groupedVacancies = <<>>
        /\ reports = <<>>
        /\ position_reports = <<>>
        /\ reportUpdates = <<>>
        /\ searchCalls = <<>>
        /\ requests = 0
        /\ inFlight = 0

\* the query failed on a table with three eligible postings
C34_Witness ==
    /\ pc = "raised"
    /\ thrown = StoreError
    /\ Len(SelectActive(vacancies_table)) = 3
    /\ reports = <<>>

(***************************************************************************)
(* index.js: main from its first await (lines 18-29).  The three stages    *)
(* before the tracking stage are taken as calls that return or throw; what *)
(* they write to the vacancies table is left open.  While the tracking     *)
(* stage has not been called pc is "notCalled".                            *)
(***************************************************************************)
StageIndex(stage) == CHOOSE k \in DOMAIN Stages : Stages[k] = stage

\* main is suspended at the await of one of the three stages before tracking
AwaitingEarlierStage ==
    /\ processExit = "running"
    /\ pc = "notCalled"
    /\ stageLog[Len(stageLog)].event = "called"

\* a catch that only logs and lets main go on with the next stage
EarlierStageRaises_GoesOn ==
    /\ AwaitingEarlierStage
    /\ LET next == Stages[StageIndex(PendingStage) + 1]
       IN  /\ stageLog' = stageLog \o << Raised(PendingStage), Called(next) >>
           /\ pc' = IF next = Stages[4] THEN "select" ELSE pc
    /\ vacancies_table' \in VacancyTables
    /\ UNCHANGED <<processExit, thrown, storeVars, runVars, execVars, histVars,
                   syncVars, fetchVars>>

\* lines 21-23: the awaited stage returns and main calls the next one, which
\* runs up to its first await
EarlierStageReturns ==
    /\ AwaitingEarlierStage
    /\ LET next == Stages[StageIndex(PendingStage) + 1]
       IN  /\ stageLog' = stageLog \o << Returned(PendingStage), Called(next) >>
           /\ pc' = IF next = Stages[4] THEN "select" ELSE pc
    /\ vacancies_table' \in VacancyTables
    /\ UNCHANGED <<processExit, thrown, storeVars, runVars, execVars, histVars,
                   syncVars, fetchVars>>

\* lines 21-23 throw, lines 26-28: the catch logs and main returns
EarlierStageRaises ==
    /\ AwaitingEarlierStage
    /\ stageLog' = Append(stageLog, Raised(PendingStage))
    /\ processExit' = "success"
    /\ vacancies_table' \in VacancyTables
    /\ UNCHANGED <<pc, thrown, storeVars, runVars, execVars, histVars, syncVars, fetchVars>>

InitMain ==
    /\ pc = "notCalled"
    /\ thrown = None
    /\ reports = <<>>
    /\ position_reports = <<>>
    /\ vacancies_table \in VacancyTables
    /\ processExit = "running"
    /\ stageLog = << Called(Stages[1]) >>
    /\ inFlight = 0
    /\ vacancies = <<>>
    /\ groupedVacancies = <<>>
    /\ currentReportId = 0
    /\ allPositionReports = <<>>
    /\ processedCount = 0
    /\ groupIndex = 0
    /\ attempt = 0
    /\ attemptLog = <<>>
    /\ sleeps = <<>>
    /\ requests = 0
    /\ searchCalls = <<>>
    /\ lastSearch = NoSearch
    /\ searchFailed = {}
    /\ groupSleeps = <<>>
    /\ reportUpdates = <<>>
    /\ SyncNotCalled
    /\ FetchNotCalled

NextMain ==
    \/ EarlierStageReturns
    \/ EarlierStageRaises
    \/ Next

SpecMain == InitMain /\ [][NextMain]_vars

(***************************************************************************)
(* C35: main runs synchronization, orphan archiving, normalization and     *)
(* position tracking in this order, each called only after the one before  *)
(* it returned; once a stage raises no later stage is called, so that no   *)
(* report exists and no search was issued when an earlier stage raised.    *)
(***************************************************************************)
\* C35: stages are called in the fixed order, each after the previous returned, none after a raise
C35_StagesInOrder ==
    /\ \A i \in DOMAIN stageLog :
         LET k == StageIndex(stageLog[i].stage)
         IN  IF stageLog[i].event = "called"
             THEN IF k = 1 THEN i = 1
                  ELSE i > 1 /\ stageLog[i - 1] = Returned(Stages[k - 1])
             ELSE i > 1 /\ stageLog[i - 1] = Called(stageLog[i].stage)
    /\ \A i \in DOMAIN stageLog : stageLog[i].event = "raised" => i = Len(stageLog)
    /\ \A i, j \in DOMAIN stageLog :
         (i < j /\ stageLog[i].event = "called" /\ stageLog[j].event = "called")
             => StageIndex(stageLog[i].stage) < StageIndex(stageLog[j].stage)
    /\ (pc # "notCalled") <=> (\E i \in DOMAIN stageLog : stageLog[i] = Called(Stages[4]))
    /\ pc = "notCalled" =>
         /\ reports = <<>>
         /\ position_reports = <<>>
         /\ searchCalls = <<>>
         /\ requests = 0
         /\ inFlight = 0

\* archiving raised after synchronization had returned: main has ended and
\* neither normalization nor tracking was called
C35_Witness ==
    /\ stageLog = << Called(Stages[1]), Returned(Stages[1]), Called(Stages[2]), Raised(Stages[2]) >>
    /\ processExit = "success"
    /\ pc = "notCalled"
    /\ reports = <<>>

(***************************************************************************)
(* hhService.js: fetchAllVacanciesForCompany (lines 11-42) on its own.     *)
(* The platform holds some pages of postings for the company and reports a *)
(* page count with every response; a page it does not hold is answered     *)
(* with an empty item list.  A request ends with a response, with a        *)
(* response whose body has no item list (items.length then throws inside   *)
(* the try), or with an error.                                             *)
(***************************************************************************)
\* the item lists a page can hold: page k holds postings numbered from 10 * k
PageItems(k) == { <<>>, << [id |-> 10 * k + 1] >>, << [id |-> 10 * k + 1], [id |-> 10 * k + 2] >> }

Platforms ==
    UNION { { [pages |-> p, reported |-> r] :
                p \in { q \in [1..n -> UNION { PageItems(k) : k \in 1..n }] :
                          \A k \in 1..n : q[k] \in PageItems(k) },
                r \in 0..(n + 1) } : n \in 0..MaxPages }

\* response.data.items of the request for 0-based page number p
ItemsOfPage(p) == IF p + 1 \in DOMAIN platform.pages THEN platform.pages[p + 1] ELSE <<>>

\* the items of the first n pages, in page order
RECURSIVE ConcatPages(_)
ConcatPages(n) == IF n = 0 THEN <<>> ELSE ConcatPages(n - 1) \o platform.pages[n]

InitFetch ==
    /\ pc = "notCalled"
    /\ thrown = None
    /\ reports = <<>>
    /\ position_reports = <<>>
    /\ vacancies_table = StoredVacancies({})
    /\ processExit = "running"
    /\ stageLog = << Called(Stages[1]) >>
    /\ inFlight = 0
    /\ vacancies = <<>>
    /\ groupedVacancies = <<>>
    /\ currentReportId = 0
    /\ allPositionReports = <<>>
    /\ processedCount = 0
    /\ groupIndex = 0
    /\ attempt = 0
    /\ attemptLog = <<>>
    /\ sleeps = <<>>
    /\ requests = 0
    /\ searchCalls = <<>>
    /\ lastSearch = NoSearch
    /\ searchFailed = {}
    /\ groupSleeps = <<>>
    /\ reportUpdates = <<>>
    /\ SyncNotCalled
    /\ fetchPc = "get"
    /\ page = 0
    /\ allVacancies = <<>>
    /\ platform \in Platforms
    /\ pageRequests = <<>>

\* what fetchAllVacanciesForCompany leaves alone
notFetchVars ==
    <<pc, thrown, storeVars, vacancies_table, processExit, stageLog, runVars, execVars,
      histVars, syncVars>>

\* lines 17-34: the request is answered; break on an empty page, else concat,
\* page++ and break when the reported page count equals the counter
PageSucceeds ==
    /\ fetchPc = "get"
    /\ LET items == ItemsOfPage(page)
       IN  /\ pageRequests' = Append(pageRequests, [page |-> page, outcome |-> "answered"])
           /\ IF Len(items) = 0
              THEN /\ fetchPc' = "returned"
                   /\ UNCHANGED <<page, allVacancies>>
              ELSE /\ allVacancies' = allVacancies \o items
                   /\ page' = page + 1
                   /\ fetchPc' = IF platform.reported = page + 1 THEN "returned" ELSE "get"
    /\ UNCHANGED platform
    /\ UNCHANGED notFetchVars

\* a catch that logs and throws the error on
PageFails_Rethrows(outcome) ==
    /\ fetchPc = "get"
    /\ pageRequests' = Append(pageRequests, [page |-> page, outcome |-> outcome])
    /\ fetchPc' = "raised"
    /\ UNCHANGED <<page, allVacancies, platform>>
    /\ UNCHANGED notFetchVars

\* lines 36-39, 41: the request fails, or items.length throws on a body
\* without an item list; the catch logs, breaks, and the list is returned
PageFails(outcome) ==
    /\ fetchPc = "get"
    /\ pageRequests' = Append(pageRequests, [page |-> page, outcome |-> outcome])
    /\ fetchPc' = "returned"
    /\ UNCHANGED <<page, allVacancies, platform>>
    /\ UNCHANGED notFetchVars

PageFailure == \E outcome \in {"failed", "malformed"} : PageFails(outcome)

NextFetch ==
    \/ PageSucceeds
    \/ PageFailure

SpecFetch == InitFetch /\ [][NextFetch]_vars

(***************************************************************************)
(* C37: fetchAllVacanciesForCompany never raises.  If a page request fails *)
(* it returns the postings of the pages fetched before; with no failure it *)
(* returns the pages in page order, up to the first empty page or to the   *)
(* page at which the page counter equals the reported page count.          *)
(***************************************************************************)
\* C37: never raises; the list is the pages answered so far in order; it ends at a
\* failure, at the first empty page, or when the counter equals the reported count
C37_FetchNeverRaises ==
    /\ fetchPc \in {"get", "returned"}
    /\ page <= Len(platform.pages)
    /\ allVacancies = ConcatPages(page)
    /\ \A i \in DOMAIN pageRequests : pageRequests[i].page = i - 1
    /\ \A i \in 1..(Len(pageRequests) - 1) :
         /\ pageRequests[i].outcome = "answered"
         /\ ItemsOfPage(i - 1) # <<>>
         /\ platform.reported # i
    /\ fetchPc = "get" =>
         /\ Len(pageRequests) = page
         /\ \A i \in DOMAIN pageRequests :
              /\ pageRequests[i].outcome = "answered"
              /\ ItemsOfPage(i - 1) # <<>>
              /\ platform.reported # i
    /\ fetchPc = "returned" =>
         LET last == pageRequests[Len(pageRequests)]
         IN  /\ Len(pageRequests) >= 1
             /\ \/ last.outcome # "answered" /\ page = last.page
                \/ last.outcome = "answered" /\ ItemsOfPage(last.page) = <<>> /\ page = last.page
                \/ /\ last.outcome = "answered"
                   /\ ItemsOfPage(last.page) # <<>>
                   /\ page = last.page + 1
                   /\ platform.reported = page

\* the request for the second page failed: the two postings of the first page are returned
C37_Witness ==
    /\ fetchPc = "returned"
    /\ Len(pageRequests) = 2
    /\ pageRequests[2].outcome = "failed"
    /\ allVacancies = << [id |-> 11], [id |-> 12] >>

(***************************************************************************)
(* syncService.js: syncVacanciesInDB (lines 47-225) on its own, for one    *)
(* company.  A detail call (makeRequestWithRetries, lines 104-108) is one  *)
(* step that returns a body or throws; the executor inside it is SpecRetry.*)
(* sendGroupedNotifications is a collaborator that returns or throws.      *)
(***************************************************************************)
Null == [t |-> "null"]

\* the summaries the platform lists for the company, by posting id: 101 and
\* 102 may be in the store already, 102 under another title; 104 has no salary
SummaryOf(n) ==
    [ id |-> ToString(n),
      name |-> IF n = 102 THEN "title 102 (edited)" ELSE "title " \o ToString(n),
      salary_from |-> IF n = 104 THEN Null ELSE Num(1000),
      show_contacts |-> TRUE ]

FetchedIds == {101, 102, 103, 104}

\* the lists of summaries the function is called with: no posting twice
FetchedLists ==
    UNION { { s \in [1..n -> { SummaryOf(i) : i \in FetchedIds }] :
                \A i, j \in 1..n : i # j => s[i] # s[j] } : n \in 0..MaxFetched }

\* the rows of the company in table vacancies before the call, with the
\* columns the function reads and writes
CompanyRow(n, status) ==
    [ id |-> n - 100, hh_vacancy_id |-> n, raw_title |-> "title " \o ToString(n),
      status |-> status ]

CompanyTables ==
    { <<>> }
    \cup { << CompanyRow(n, st) >> : n \in {101, 102}, st \in {"active", "closed"} }
    \cup { << CompanyRow(101, st1), CompanyRow(102, st2) >> :
             st1 \in {"active", "closed"}, st2 \in {"active", "closed"} }

\* the bodies a detail request is answered with: with or without key skills,
\* or without the key_skills list (details.key_skills.map then throws)
DetailBodies == { [key_skills |-> <<>>], [key_skills |-> <<"sql">>], [id |-> "x"] }

\* lines 66-70: the summaries whose posting id is not a key of existingVacanciesMap
NewSummaries(existing, fetched) ==
    SelectSeq(fetched,
              LAMBDA v : \A i \in DOMAIN existing : existing[i].hh_vacancy_id # ParseInt(v.id))

\* lines 76-92: the row of a new posting at an initial synchronization
InitialVacancy(summary) ==
    [ hh_vacancy_id |-> ParseInt(summary.id), raw_title |-> summary.name,
      status |-> "active", salary_from |-> summary.salary_from,
      show_contacts |-> summary.show_contacts = TRUE, key_skills |-> <<>> ]

\* lines 111-127: the row of a new posting with the key skills of its details
FullVacancyData(summary, details) ==
    [ hh_vacancy_id |-> ParseInt(summary.id), raw_title |-> summary.name,
      status |-> "active", salary_from |-> summary.salary_from,
      show_contacts |-> summary.show_contacts = TRUE, key_skills |-> details.key_skills ]

\* lines 132-142: the issues of a new posting
Issues(full) ==
    (IF full.salary_from = Null THEN {"salary"} ELSE {})
    \cup (IF Len(full.key_skills) = 0 THEN {"key skills"} ELSE {})
    \cup (IF full.show_contacts # TRUE THEN {"contacts"} ELSE {})

\* insert(rows) as the store applies it: the rows get the next ids
InsertVacancies(table, rows) ==
    table \o [ i \in DOMAIN rows |->
                 [ f \in DOMAIN rows[i] \cup {"id"} |->
                     IF f = "id" THEN Len(table) + i ELSE rows[i][f] ] ]

FetchedVacancyIds == { ParseInt(fetchedVacancies[i].id) : i \in DOMAIN fetchedVacancies }

\* lines 175-177
VacanciesToReactivateIds(existing) ==
    { existing[i].id : i \in { j \in DOMAIN existing :
        existing[j].status # "active" /\ existing[j].hh_vacancy_id \in FetchedVacancyIds } }

\* lines 186-188
ClosedVacancyIds(existing) ==
    { existing[i].hh_vacancy_id : i \in { j \in DOMAIN existing :
        existing[j].status = "active" /\ existing[j].hh_vacancy_id \notin FetchedVacancyIds } }

\* lines 199-212
VacanciesWithChangedTitle(existing) ==
    { [id |-> existing[i].id, raw_title |-> fetchedVacancies[k].name] :
        <<i, k>> \in { p \in (DOMAIN existing) \X (DOMAIN fetchedVacancies) :
            /\ existing[p[1]].hh_vacancy_id = ParseInt(fetchedVacancies[p[2]].id)
            /\ existing[p[1]].status = "active"
            /\ existing[p[1]].raw_title # fetchedVacancies[p[2]].name } }

\* the await the function reaches next once the title check is all that is left
AfterClosePc(existing) ==
    IF VacanciesWithChangedTitle(existing) # {} THEN "titles" ELSE "returned"

AfterReactivatePc(existing) ==
    IF ClosedVacancyIds(existing) # {} THEN "close" ELSE AfterClosePc(existing)

\* the await the function reaches next when step 3 is over
AfterNewPc(existing) ==
    IF VacanciesToReactivateIds(existing) # {} THEN "reactivate" ELSE AfterReactivatePc(existing)

\* lines 156-167 with the loop cut short: what follows the for loop
AfterLoop ==
    IF flawedVacanciesForGrouping' # <<>>
    THEN /\ notifications' = Append(notifications, flawedVacanciesForGrouping')
         /\ syncPc' = "notify"
         /\ UNCHANGED inserts
    ELSE IF vacanciesToInsert' # <<>>
         THEN /\ inserts' = Append(inserts, vacanciesToInsert')
              /\ syncPc' = "insertNew"
              /\ UNCHANGED notifications
         ELSE /\ syncPc' = AfterNewPc(allExistingVacancies)
              /\ UNCHANGED <<notifications, inserts>>

\* the for loop of line 102 goes round: the detail call of the next summary,
\* or lines 156-167 when there is none
LoopGoesOn ==
    IF summaryIndex < Len(newVacanciesSummaries)
    THEN /\ summaryIndex' = summaryIndex + 1
         /\ syncPc' = "detail"
         /\ UNCHANGED <<notifications, inserts>>
    ELSE /\ UNCHANGED summaryIndex
         /\ AfterLoop

syncVarsButPc ==
    <<fetchedVacancies, allExistingVacancies, isInitialSync, newVacanciesSummaries,
      summaryIndex, vacanciesToInsert, flawedVacanciesForGrouping, detailRequests,
      notifications, inserts>>

\* what syncVacanciesInDB leaves alone
notSyncVars ==
    <<pc, thrown, storeVars, processExit, stageLog, runVars, execVars, histVars, fetchVars>>

\* select('id, hh_vacancy_id, raw_title, status').eq('company_hh_id', companyId)
ExistingOf(table) ==
    [ i \in DOMAIN table |->
        [ f \in {"id", "hh_vacancy_id", "raw_title", "status"} |-> table[i][f] ] ]

InitSync ==
    /\ pc = "notCalled"
    /\ thrown = None
    /\ reports = <<>>
    /\ position_reports = <<>>
    /\ vacancies_table \in CompanyTables
    /\ processExit = "running"
    /\ stageLog = << Called(Stages[1]) >>
    /\ inFlight = 0
    /\ vacancies = <<>>
    /\ groupedVacancies = <<>>
    /\ currentReportId = 0
    /\ allPositionReports = <<>>
    /\ processedCount = 0
    /\ groupIndex = 0
    /\ attempt = 0
    /\ attemptLog = <<>>
    /\ sleeps = <<>>
    /\ requests = 0
    /\ searchCalls = <<>>
    /\ lastSearch = NoSearch
    /\ searchFailed = {}
    /\ groupSleeps = <<>>
    /\ reportUpdates = <<>>
    /\ syncPc = "existing"
    /\ fetchedVacancies \in FetchedLists
    /\ allExistingVacancies = <<>>
    /\ isInitialSync = FALSE
    /\ newVacanciesSummaries = <<>>
    /\ summaryIndex = 0
    /\ vacanciesToInsert = <<>>
    /\ flawedVacanciesForGrouping = <<>>
    /\ detailRequests = <<>>
    /\ notifications = <<>>
    /\ inserts = <<>>
    /\ FetchNotCalled

\* lines 55-97, 171: fetchAllSupabasePages settles; it throws the store's
\* error, or the function goes on to its next await
ExistingFetched ==
    /\ syncPc = "existing"
    /\ \/ /\ syncPc' = "raised"
          /\ UNCHANGED <<allExistingVacancies, isInitialSync, newVacanciesSummaries,
                         summaryIndex, inserts>>
       \/ LET existing == ExistingOf(vacancies_table)
              new == NewSummaries(existing, fetchedVacancies)
              initial == \A i \in DOMAIN existing : existing[i].status # "active"
          IN  /\ allExistingVacancies' = existing
              /\ isInitialSync' = initial
              /\ newVacanciesSummaries' = new
              /\ IF new # <<>>
                 THEN IF initial
                      THEN /\ inserts' = Append(inserts, [ i \in DOMAIN new |-> InitialVacancy(new[i]) ])
                           /\ syncPc' = "insertInitial"
                           /\ UNCHANGED summaryIndex
                      ELSE /\ summaryIndex' = 1
                           /\ syncPc' = "detail"
                           /\ UNCHANGED inserts
                 ELSE /\ syncPc' = AfterNewPc(existing)
                      /\ UNCHANGED <<summaryIndex, inserts>>
    /\ UNCHANGED <<fetchedVacancies, vacanciesToInsert, flawedVacanciesForGrouping,
                   detailRequests, notifications, vacancies_table>>
    /\ UNCHANGED notSyncVars

\* lines 93-94: the insert of the starting postings settles; an error is logged
InitialInsertSettles ==
    /\ syncPc = "insertInitial"
    /\ \/ vacancies_table' = InsertVacancies(vacancies_table, inserts[Len(inserts)])
       \/ vacancies_table' = vacancies_table
    /\ syncPc' = AfterNewPc(allExistingVacancies)
    /\ UNCHANGED <<fetchedVacancies, allExistingVacancies, isInitialSync,
                   newVacanciesSummaries, summaryIndex, vacanciesToInsert,
                   flawedVacanciesForGrouping, detailRequests, notifications, inserts>>
    /\ UNCHANGED notSyncVars

\* lines 104-151: the detail call returns; the row is built and pushed, or
\* details.key_skills.map throws and the catch of line 152 skips the posting
DetailSucceeds ==
    /\ syncPc = "detail"
    /\ \E details \in DetailBodies :
         LET summary == newVacanciesSummaries[summaryIndex]
         IN  IF "key_skills" \in DOMAIN details
             THEN LET full == FullVacancyData(summary, details)
                  IN  /\ vacanciesToInsert' = Append(vacanciesToInsert, full)
                      /\ flawedVacanciesForGrouping' =
                            IF Issues(full) # {}
                            THEN Append(flawedVacanciesForGrouping,
                                        [raw_title |-> full.raw_title, issues |-> Issues(full)])
                            ELSE flawedVacanciesForGrouping
                      /\ detailRequests' =
                            Append(detailRequests, [id |-> summary.id, outcome |-> "succeeded"])
                      /\ syncPc' = "sleep"
                      /\ UNCHANGED <<summaryIndex, notifications, inserts>>
             ELSE /\ detailRequests' =
                        Append(detailRequests, [id |-> summary.id, outcome |-> "malformed"])
                  /\ UNCHANGED <<vacanciesToInsert, flawedVacanciesForGrouping>>
                  /\ LoopGoesOn
    /\ UNCHANGED <<fetchedVacancies, allExistingVacancies, isInitialSync,
                   newVacanciesSummaries, vacancies_table>>
    /\ UNCHANGED notSyncVars

\* a catch that leaves the loop at the first posting without details
DetailFails_LeavesLoop ==
    /\ syncPc = "detail"
    /\ detailRequests' = Append(detailRequests,
                                [id |-> newVacanciesSummaries[summaryIndex].id,
                                 outcome |-> "failed"])
    /\ UNCHANGED <<vacanciesToInsert, flawedVacanciesForGrouping, summaryIndex>>
    /\ AfterLoop
    /\ UNCHANGED <<fetchedVacancies, allExistingVacancies, isInitialSync,
                   newVacanciesSummaries, vacancies_table>>
    /\ UNCHANGED notSyncVars

\* lines 104-108 throw, lines 152-154: the catch logs and the loop goes round
DetailFails ==
    /\ syncPc = "detail"
    /\ detailRequests' = Append(detailRequests,
                                [id |-> newVacanciesSummaries[summaryIndex].id,
                                 outcome |-> "failed"])
    /\ UNCHANGED <<vacanciesToInsert, flawedVacanciesForGrouping>>
    /\ LoopGoesOn
    /\ UNCHANGED <<fetchedVacancies, allExistingVacancies, isInitialSync,
                   newVacanciesSummaries, vacancies_table>>
    /\ UNCHANGED notSyncVars

\* line 151: sleep(550) is over
DetailSleepElapsed ==
    /\ syncPc = "sleep"
    /\ UNCHANGED <<vacanciesToInsert, flawedVacanciesForGrouping>>
    /\ LoopGoesOn
    /\ UNCHANGED <<fetchedVacancies, allExistingVacancies, isInitialSync,
                   newVacanciesSummaries, detailRequests, vacancies_table>>
    /\ UNCHANGED notSyncVars

\* lines 159-166: sendGroupedNotifications settles; when it throws so does
\* the function
NotificationSettles ==
    /\ syncPc = "notify"
    /\ \/ /\ syncPc' = "raised"
          /\ UNCHANGED inserts
       \/ IF vacanciesToInsert # <<>>
          THEN /\ inserts' = Append(inserts, vacanciesToInsert)
               /\ syncPc' = "insertNew"
          ELSE /\ syncPc' = AfterNewPc(allExistingVacancies)
               /\ UNCHANGED inserts
    /\ UNCHANGED <<fetchedVacancies, allExistingVacancies, isInitialSync,
                   newVacanciesSummaries, summaryIndex, vacanciesToInsert,
                   flawedVacanciesForGrouping, detailRequests, notifications,
                   vacancies_table>>
    /\ UNCHANGED notSyncVars

\* lines 164-166: the insert of the new postings settles; an error is logged
NewInsertSettles ==
    /\ syncPc = "insertNew"
    /\ \/ vacancies_table' = InsertVacancies(vacancies_table, inserts[Len(inserts)])
       \/ vacancies_table' = vacancies_table
    /\ syncPc' = AfterNewPc(allExistingVacancies)
    /\ UNCHANGED <<fetchedVacancies, allExistingVacancies, isInitialSync,
                   newVacanciesSummaries, summaryIndex, vacanciesToInsert,
                   flawedVacanciesForGrouping, detailRequests, notifications, inserts>>
    /\ UNCHANGED notSyncVars

\* lines 179-183: the update to active settles; an error is logged
ReactivateSettles ==
    /\ syncPc = "reactivate"
    /\ \/ vacancies_table' =
             [ i \in DOMAIN vacancies_table |->
                 IF vacancies_table[i].id \in VacanciesToReactivateIds(allExistingVacancies)
                 THEN [vacancies_table[i] EXCEPT !.status = "active"]
                 ELSE vacancies_table[i] ]
       \/ vacancies_table' = vacancies_table
    /\ syncPc' = AfterReactivatePc(allExistingVacancies)
    /\ UNCHANGED syncVarsButPc
    /\ UNCHANGED notSyncVars

\* lines 190-194: the update to closed settles; an error is logged
CloseSettles ==
    /\ syncPc = "close"
    /\ \/ vacancies_table' =
             [ i \in DOMAIN vacancies_table |->
                 IF vacancies_table[i].hh_vacancy_id \in ClosedVacancyIds(allExistingVacancies)
                 THEN [vacancies_table[i] EXCEPT !.status = "closed"]
                 ELSE vacancies_table[i] ]
       \/ vacancies_table' = vacancies_table
    /\ syncPc' = AfterClosePc(allExistingVacancies)
    /\ UNCHANGED syncVarsButPc
    /\ UNCHANGED notSyncVars

\* lines 214-221: Promise.all of the title updates settles; the store applied
\* some of them (a result with an error is not read)
TitlesSettle ==
    /\ syncPc = "titles"
    /\ \E applied \in SUBSET VacanciesWithChangedTitle(allExistingVacancies) :
         vacancies_table' =
             [ i \in DOMAIN vacancies_table |->
                 IF \E u \in applied : u.id = vacancies_table[i].id
                 THEN LET u == CHOOSE u \in applied : u.id = vacancies_table[i].id
                      IN  [ f \in DOMAIN vacancies_table[i] \cup {"normalized_title"} |->
                              IF f = "raw_title" THEN u.raw_title
                              ELSE IF f = "normalized_title" THEN Null
                              ELSE vacancies_table[i][f] ]
                 ELSE vacancies_table[i] ]
    /\ syncPc' = "returned"
    /\ UNCHANGED syncVarsButPc
    /\ UNCHANGED notSyncVars

NextSync ==
    \/ ExistingFetched
    \/ InitialInsertSettles
    \/ DetailSucceeds
    \/ DetailFails
    \/ DetailSleepElapsed
    \/ NotificationSettles
    \/ NewInsertSettles
    \/ ReactivateSettles
    \/ CloseSettles
    \/ TitlesSettle

SpecSync == InitSync /\ [][NextSync]_vars

\* ---- C36 ----
\* step 3 of syncVacanciesInDB is over
PastNewVacancies == syncPc \in {"reactivate", "close", "titles", "returned"}

\* the posting ids of the rows the function asked the store to insert, in order
RECURSIVE InsertedIds(_)
InsertedIds(k) ==
    IF k = 0 THEN <<>>
    ELSE InsertedIds(k - 1) \o [ i \in DOMAIN inserts[k] |-> inserts[k][i].hh_vacancy_id ]

\* C36: in syncVacanciesInDB, when the store holds no active posting of the
\* company (initial synchronization) no detail request is made and no
\* notification is sent, and once step 3 is over one insert was issued with all
\* the new fetched postings; otherwise every posting of an insert has a detail
\* request that succeeded, and once step 3 is over a detail request was made
\* for every new posting, whatever the outcome of the earlier ones, and the
\* postings of the insert are those whose detail request succeeded.
C36_NewPostingsInserted ==
    LET new == NewSummaries(allExistingVacancies, fetchedVacancies)
        initial == \A i \in DOMAIN allExistingVacancies :
                      allExistingVacancies[i].status # "active"
        succeeded == SelectSeq(detailRequests, LAMBDA d : d.outcome = "succeeded")
    IN  /\ initial =>
              /\ detailRequests = <<>>
              /\ notifications = <<>>
              /\ PastNewVacancies =>
                    /\ InsertedIds(Len(inserts)) = [ i \in DOMAIN new |-> ParseInt(new[i].id) ]
                    /\ Len(inserts) = (IF new = <<>> THEN 0 ELSE 1)
        /\ ~initial =>
              /\ \A k \in DOMAIN inserts : \A i \in DOMAIN inserts[k] :
                    \E d \in DOMAIN detailRequests :
                        /\ ParseInt(detailRequests[d].id) = inserts[k][i].hh_vacancy_id
                        /\ detailRequests[d].outcome = "succeeded"
              /\ PastNewVacancies =>
                    /\ [ d \in DOMAIN detailRequests |-> detailRequests[d].id ]
                          = [ i \in DOMAIN new |-> new[i].id ]
                    /\ InsertedIds(Len(inserts))
                          = [ d \in DOMAIN succeeded |-> ParseInt(succeeded[d].id) ]
                    /\ Len(inserts) = (IF succeeded = <<>> THEN 0 ELSE 1)

\* a standard synchronization is over: the first detail request failed, the
\* second succeeded and its posting was inserted
C36_Witness ==
    /\ syncPc = "returned"
    /\ \E i \in DOMAIN allExistingVacancies : allExistingVacancies[i].status = "active"
    /\ Len(detailRequests) = 2
    /\ detailRequests[1].outcome = "failed"
    /\ detailRequests[2].outcome = "succeeded"
    /\ Len(inserts) = 1
    /\ Len(inserts[1]) = 1

====
